---- MODULE Spec2Model ----
(***************************************************************************)
(* big-waffle: the dataset catalog (table "datasets") and the admin CLI    *)
(* commands that change it: load, make-default, delete, purge.             *)
(*                                                                         *)
(* Strings are sequences of one-character strings, so that the string      *)
(* operations of the code (slice, concatenation, the tests on trailing     *)
(* digits) are computed and not assumed.  A reserved token ("latest",      *)
(* "_ALL_") is a one-element sequence holding the whole word.              *)
(*                                                                         *)
(* The catalog is the sequence of its rows in the order of their           *)
(* "imported" timestamps, oldest first: ORDER BY imported DESC is the      *)
(* reverse of that sequence.  Admin commands run one at a time (one CLI    *)
(* process), one SQL statement per step.                                   *)
(***************************************************************************)
EXTENDS Integers, Sequences, FiniteSets, TLC

\* ------------------------------------------------------------------ bounds

\* Rows the catalog may hold: a load starts only below this.
MaxRows == 4
\* The days on which incrementVersion is applied: day 0 up to this one.
MaxDay == 1
\* The highest two-digit counter a derived version may end with: a load that
\* would derive a higher one does not start.
MaxMinor == 2
\* The highest value of CPU_THROTTLE and DB_THROTTLE; the lag and the queue
\* of the pool go one beyond it.
MaxThrottle == 2
\* The rows the database gives for a query, and the value columns of a query.
MaxRecords == 2
MaxValues == 2
\* The elements of order_by.
MaxOrderBy == 2
\* Versions the admin loads, and rows the catalog may hold, while the service runs.
MaxServed == 2

\* ------------------------------------------------------------- characters

DigitStr == <<"0", "1", "2", "3", "4", "5", "6", "7", "8", "9">>

IsDigit(c) == \E i \in 1..10 : DigitStr[i] = c

DigitVal(c) == (CHOOSE i \in 1..10 : DigitStr[i] = c) - 1

\* Number.parseInt of a string of digits
ParseInt(s) ==
  LET RECURSIVE val(_)
      val(k) == IF k = 0 THEN 0 ELSE 10 * val(k - 1) + DigitVal(s[k])
  IN val(Len(s))

\* `${n}` for a number n >= 0
NumStr(n) ==
  LET RECURSIVE str(_)
      str(k) == IF k < 10 THEN <<DigitStr[k + 1]>>
                ELSE str(k \div 10) \o <<DigitStr[(k % 10) + 1]>>
  IN str(n)

\* a number printed with at least w digits, zero padded (Moment's YYYY, MM, DD, ss)
Pad(n, w) ==
  LET s == NumStr(n)
  IN [i \in 1..(IF Len(s) < w THEN w - Len(s) ELSE 0) |-> "0"] \o s

\* String.prototype.slice(0, -k) and slice(-k)
SliceHead(s, k) == IF Len(s) <= k THEN <<>> ELSE SubSeq(s, 1, Len(s) - k)

SliceTail(s, k) == IF Len(s) <= k THEN s ELSE SubSeq(s, Len(s) - k + 1, Len(s))

\* ------------------------------------------------------------------ dates

\* The modelled days: day 0 is 2026-11-02, day d is d days after it (the
\* commands on the catalog all run on day 0).
Today(d) == [y |-> 2026, m |-> 11, d |-> 2 + d]

IsLeap(y) == (y % 4 = 0 /\ y % 100 # 0) \/ y % 400 = 0

DaysInMonth(y, m) ==
  IF m = 2 THEN (IF IsLeap(y) THEN 29 ELSE 28)
  ELSE IF m \in {4, 6, 9, 11} THEN 30 ELSE 31

InvalidDate == [y |-> 0, m |-> 0, d |-> 0]

\* Moment.utc(root, 'YYYYMMDD', true): strict parsing, eight digits that
\* name a calendar day; anything else is an invalid date.
ParseDate(root) ==
  IF Len(root) = 8 /\ \A i \in 1..8 : IsDigit(root[i])
  THEN LET y == ParseInt(SubSeq(root, 1, 4))
           m == ParseInt(SubSeq(root, 5, 6))
           d == ParseInt(SubSeq(root, 7, 8))
       IN IF m \in 1..12 /\ d >= 1 /\ d <= DaysInMonth(y, m)
          THEN [y |-> y, m |-> m, d |-> d]
          ELSE InvalidDate
  ELSE InvalidDate

\* versionDate.isSameOrAfter(Moment.utc(), 'day')
IsSameOrAfterDay(a, b) ==
  \/ a.y > b.y
  \/ a.y = b.y /\ a.m > b.m
  \/ a.y = b.y /\ a.m = b.m /\ a.d >= b.d

\* date.seconds(secs).format('YYYYMMDDss') for a date at 00:00:00 UTC:
\* seconds above 59 bubble up into the minutes, the day stays.
FormatWithSeconds(date, secs) ==
  Pad(date.y, 4) \o Pad(date.m, 2) \o Pad(date.d, 2) \o Pad(secs % 60, 2)

\* --------------------------------------------------------------- versions

\* no version: undefined in the code
NoVersion == <<>>

Latest == <<"latest">>

All == <<"_ALL_">>

\* /[0-9]{2}$/.test(version)
EndsWithTwoDigits(v) ==
  Len(v) >= 2 /\ IsDigit(v[Len(v)]) /\ IsDigit(v[Len(v) - 1])

\* Dataset.incrementVersion() with no argument: the next version after
\* `version`, on the day `today`.
IncrementVersion(version, today) ==
  IF version = NoVersion
  THEN FormatWithSeconds(today, 1)
  ELSE IF EndsWithTwoDigits(version)
  THEN LET root == SliceHead(version, 2)
           minorVersion == ParseInt(SliceTail(version, 2))
           versionDate == ParseDate(root)
       IN IF versionDate # InvalidDate
          THEN IF IsSameOrAfterDay(versionDate, today)
               THEN FormatWithSeconds(versionDate, minorVersion + 1)
               ELSE FormatWithSeconds(today, 1)
          ELSE root \o (IF minorVersion < 10 THEN <<"0">> ELSE <<>>)
                    \o NumStr(minorVersion + 1)
  ELSE version \o <<"1">>

\* ---------------------------------------------------------------- catalog

\* Dataset names and the literal versions an operator passes on the command line.
Names == {<<"t">>, <<"u">>}

ExplicitVersions == {<<"v", "1">>}

\* The keys of the tables of the loaded DDF package: the concepts table and
\* one entity domain.
PackageKeys == {<<"c", "o", "n", "c", "e", "p", "t">>, <<"g", "e", "o">>}

\* Dataset._getCollection: `${this.name}_${collectionName}_${this.version}`
\* (all names of the model are shorter than the 64 characters above which
\* Table hashes the name)
GetCollection(name, collectionName, version) ==
  name \o <<"_">> \o collectionName \o <<"_">> \o version

\* DDFSchema.tableNames of a dataset loaded from the package
TableNames(name, version) ==
  {GetCollection(name, key, version) : key \in PackageKeys}

VARIABLES
  catalog,   \* the rows of table datasets, oldest import first
  tables,    \* the names of the physical tables in the database
  day,       \* today, in days after the first day
  pc,        \* the statement the running command is at, "idle" between commands
  cmd,       \* the running command: op, name, version, publish
  dsVersion, \* Dataset.version of the dataset object of a running load
  mdv,       \* makeDefaultVersion: its version argument
  ret,       \* makeDefaultVersion and remove: where the caller continues
  rmf,       \* remove: the filter on version of its SELECT and DELETE
  drop,      \* remove: the table names it is about to drop
  out,       \* how the last command ended
  pre,       \* the catalog and the tables when the running command started
  last,      \* the load with a literal version that completed just before
  incIn,     \* incrementVersion alone: the version before
  incOut,    \* incrementVersion alone: the version after
  req,       \* service: the HTTP request the handler is working on
  ds,        \* service: the dataset Dataset.open gave the handler
  resp,      \* service: the response to the last request
  loc,       \* client: the Location of the last redirect it received
  hpc,       \* service: the statement the request handler is at
  arg,       \* a function of the service alone: its input
  res        \* a function of the service alone: its result

vars == <<catalog, tables, day, pc, cmd, dsVersion, mdv, ret, rmf, drop, out,
          pre, last, incIn, incOut, req, ds, resp, loc, hpc, arg, res>>

\* the variables of the admin commands (the service leaves them alone)
admin == <<catalog, tables, day, pc, cmd, dsVersion, mdv, ret, rmf, drop, out,
           pre, last, incIn, incOut>>

\* the variables of the service (the admin commands leave them alone)
svc == <<req, ds, resp, loc, hpc, arg, res>>

NoCmd == [op |-> "none", name |-> <<>>, version |-> <<>>, publish |-> FALSE]

NoFilter == [all |-> FALSE, versions |-> {}]

NoSnapshot == [catalog |-> <<>>, tables |-> {}, taken |-> FALSE]

NoLast == [name |-> <<>>, version |-> <<>>, publish |-> FALSE,
           catalog |-> <<>>, tables |-> {}, valid |-> FALSE]

Snapshot == [catalog |-> catalog, tables |-> tables, taken |-> TRUE]

Reverse(s) == [i \in 1..Len(s) |-> s[Len(s) + 1 - i]]

\* SELECT ... FROM datasets WHERE name = '${name}' ORDER BY imported DESC
SelectVersions(cat, name) ==
  LET named(r) == r.name = name
  IN Reverse(SelectSeq(cat, named))

\* ... ORDER BY is__default DESC, imported DESC
SelectDefaultFirst(cat, name) ==
  LET rows == SelectVersions(cat, name)
      isDefault(r) == r.isDefault
      notDefault(r) == ~r.isDefault
  IN SelectSeq(rows, isDefault) \o SelectSeq(rows, notDefault)

NotFound == [found |-> FALSE, version |-> NoVersion]

\* Open with the default flag left out of the ordering (a mutant of Open)
OpenIgnoresDefault(cat, name, version) ==
  LET versioned(r) == r.version = version
      docs == IF version = Latest \/ version = NoVersion THEN SelectVersions(cat, name)
              ELSE SelectSeq(SelectVersions(cat, name), versioned)
  IN IF Len(docs) >= 1 THEN [found |-> TRUE, version |-> docs[1].version]
     ELSE NotFound

\* Open that, without a version, selects the default rows only (a mutant of Open)
OpenDefaultOnly(cat, name, version) ==
  LET versioned(r) == r.version = version
      isDefault(r) == r.isDefault
      docs == IF version = Latest THEN SelectVersions(cat, name)
              ELSE IF version # NoVersion
              THEN SelectSeq(SelectVersions(cat, name), versioned)
              ELSE SelectSeq(SelectVersions(cat, name), isDefault)
  IN IF Len(docs) >= 1 THEN [found |-> TRUE, version |-> docs[1].version]
     ELSE NotFound

\* Dataset.open(name, version): the row it loads the dataset from, docs[0]
Open(cat, name, version) ==
  LET versioned(r) == r.version = version
      docs == IF version = Latest THEN SelectVersions(cat, name)
              ELSE IF version # NoVersion
              THEN SelectSeq(SelectVersions(cat, name), versioned)
              ELSE SelectDefaultFirst(cat, name)
  IN IF Len(docs) >= 1 THEN [found |-> TRUE, version |-> docs[1].version]
     ELSE NotFound

\* UPDATE datasets SET is__default = FALSE WHERE name = '${name}' AND is__default = TRUE
UnsetDefault(cat, name) ==
  [i \in 1..Len(cat) |->
     IF cat[i].name = name /\ cat[i].isDefault
     THEN [cat[i] EXCEPT !.isDefault = FALSE] ELSE cat[i]]

\* UPDATE datasets SET is__default = TRUE WHERE name = '${name}' AND version = '${version}'
SetDefault(cat, name, version) ==
  [i \in 1..Len(cat) |->
     IF cat[i].name = name /\ cat[i].version = version
     THEN [cat[i] EXCEPT !.isDefault = TRUE] ELSE cat[i]]

\* the WHERE clause of remove: name = '${name}' [AND version = ... | AND version IN (...)]
Matches(r, name, filter) ==
  r.name = name /\ (filter.all \/ r.version \in filter.versions)

\* DELETE that leaves the version out of its WHERE (a mutant of DeleteRows)
DeleteRowsOfName(cat, name, filter) ==
  LET kept(r) == r.name # name
  IN SelectSeq(cat, kept)

\* DELETE FROM datasets WHERE ...
DeleteRows(cat, name, filter) ==
  LET kept(r) == ~Matches(r, name, filter)
  IN SelectSeq(cat, kept)

\* the loop of purge over allVersions (most recent first): the versions to delete
PurgeToDelete(rows) ==
  LET RECURSIVE loop(_, _, _)
      \* i: index of the next row; acc: versionsToDelete; def: a default was seen
      loop(i, acc, def) ==
        IF i > Len(rows)
        THEN IF def THEN acc ELSE SubSeq(acc, 3, Len(acc))
        ELSE IF rows[i].isDefault
             THEN loop(i + 2, <<>>, TRUE)
             ELSE loop(i + 1, Append(acc, rows[i].version), def)
  IN loop(1, <<>>, FALSE)

Range(s) == {s[i] : i \in DOMAIN s}

\* a query with nothing in it
NoQuery ==
  [language |-> <<>>, selectT |-> "absent",
   keyT |-> "absent", key |-> <<>>,
   valueT |-> "absent", value |-> <<>>,
   fromT |-> "absent", from |-> "",
   orderT |-> "absent", order_by |-> <<>>, join |-> <<>>, where |-> <<>>]

\* BasicAuth(ctx.req) of a request without an Authorization header
NoCredential == [name |-> <<>>, pass |-> <<>>, given |-> FALSE]

\* no request, no dataset, no response, no redirect, no input, no result
NoReq == [route |-> "none", name |-> <<>>, version |-> <<>>, hasQuery |-> FALSE,
          query |-> NoQuery, credential |-> NoCredential, follows |-> FALSE]

NoDataset == [found |-> FALSE, version |-> <<>>, password |-> <<>>]

NoLoc == [name |-> <<>>, version |-> <<>>, hasQuery |-> FALSE, query |-> NoQuery,
          valid |-> FALSE]

NoTag == [name |-> <<>>, version |-> <<>>]

NoResp == [status |-> 0, location |-> NoLoc, version |-> <<>>, readFrom |-> <<>>,
           cacheControl |-> "", cacheTag |-> NoTag, wwwAuthenticate |-> <<>>,
           acquired |-> FALSE, streamed |-> FALSE]

NoArg == [kind |-> "none"]

NoRes == [kind |-> "none"]

\* no admin command has run
AdminAtRest ==
  /\ catalog = <<>>
  /\ tables = {}
  /\ day = 0
  /\ pc = "idle"
  /\ cmd = NoCmd
  /\ dsVersion = NoVersion
  /\ mdv = NoVersion
  /\ ret = "done"
  /\ rmf = NoFilter
  /\ drop = {}
  /\ out = "none"
  /\ pre = NoSnapshot
  /\ last = NoLast
  /\ incIn = NoVersion
  /\ incOut = NoVersion

\* the service has received nothing yet
SvcAtRest ==
  /\ req = NoReq
  /\ ds = NoDataset
  /\ resp = NoResp
  /\ loc = NoLoc
  /\ hpc = "idle"
  /\ arg = NoArg
  /\ res = NoRes

\* ------------------------------------------------------------------- init

Init ==
  /\ catalog = <<>>
  /\ tables = {}
  /\ day = 0
  /\ pc = "idle"
  /\ cmd = NoCmd
  /\ dsVersion = NoVersion
  /\ mdv = NoVersion
  /\ ret = "done"
  /\ rmf = NoFilter
  /\ drop = {}
  /\ out = "none"
  /\ pre = NoSnapshot
  /\ last = NoLast
  /\ incIn = NoVersion
  /\ incOut = NoVersion
  /\ SvcAtRest

\* ------------------------------------------------------------------- load

\* load without the check on an opened dataset (a mutant of LoadRejected)
LoadRejectedLatestOnly(cat, name, version) == version = Latest

\* load (cli): the checks before anything is loaded: "latest" is no version
\* to load, and a literal version must not be in the catalog yet.
LoadRejected(cat, name, version) ==
  \/ version = Latest
  \/ version # NoVersion /\ Open(cat, name, version).found

\* load (cli): the version the dataset object carries into loadFromDirectory.
\* An opened dataset (or none, and no literal version) gets incrementVersion().
LoadVersion(cat, name, version, today) ==
  LET doc == Open(cat, name, version)
  IN IF doc.found \/ version = NoVersion
     THEN IncrementVersion(doc.version, today)
     ELSE version

\* the versions within the bound on the counter
WithinBounds(version) ==
  EndsWithTwoDigits(version) => ParseInt(SliceTail(version, 2)) <= MaxMinor

\* Dataset.open and the checks of load, up to the start of the ingestion
LoadOpen(n, v, pub) ==
  /\ pc = "idle"
  /\ \/ LoadRejected(catalog, n, v)
     \/ /\ Len(catalog) < MaxRows
        /\ v = NoVersion => WithinBounds(LoadVersion(catalog, n, v, Today(day)))
  /\ cmd' = [op |-> "load", name |-> n, version |-> v, publish |-> pub]
  /\ pre' = Snapshot
  /\ last' = NoLast
  /\ IF LoadRejected(catalog, n, v)
     THEN /\ pc' = "done"
          /\ out' = "thrown"
          /\ dsVersion' = NoVersion
     ELSE /\ pc' = "load_ingest"
          /\ out' = "none"
          /\ dsVersion' = LoadVersion(catalog, n, v, Today(day))
  /\ UNCHANGED <<catalog, tables, day, mdv, ret, rmf, drop, incIn, incOut, svc>>

\* Dataset.loadFromDirectory: the tables of the package are created
\* (CREATE OR REPLACE) and filled
LoadIngest ==
  /\ pc = "load_ingest"
  /\ tables' = tables \cup TableNames(cmd.name, dsVersion)
  /\ pc' = IF cmd.publish THEN "save_insert" ELSE "ensure_default"
  /\ UNCHANGED <<catalog, day, cmd, dsVersion, mdv, ret, rmf, drop, out, pre,
                 last, incIn, incOut, svc>>

\* ensureDefaultVersion that pins nothing (a mutant of EnsureDefaultTarget)
EnsureDefaultTargetNone(cat, name) == NoVersion

\* Dataset.ensureDefaultVersion: the version to make the default, NoVersion
\* when there is a default already or there is no version at all
EnsureDefaultTarget(cat, name) ==
  LET versions == SelectVersions(cat, name)
  IN IF \E i \in 1..Len(versions) : versions[i].isDefault THEN NoVersion
     ELSE IF Len(versions) < 1 THEN NoVersion
     ELSE versions[1].version

\* Dataset.save(publish), publish !== true: ensureDefaultVersion first
SaveEnsureDefault ==
  /\ pc = "ensure_default"
  /\ IF EnsureDefaultTarget(catalog, cmd.name) = NoVersion
     THEN /\ pc' = "save_insert"
          /\ UNCHANGED <<mdv, ret>>
     ELSE /\ pc' = "md_select"
          /\ mdv' = EnsureDefaultTarget(catalog, cmd.name)
          /\ ret' = "save_insert"
  /\ UNCHANGED <<catalog, tables, day, cmd, dsVersion, rmf, drop, out, pre,
                 last, incIn, incOut, svc>>

\* the row INSERT INTO datasets adds: is__default takes its DEFAULT FALSE,
\* imported is now; the definition names the tables of the schema
NewRow(name, version) ==
  [name |-> name, version |-> version, isDefault |-> FALSE,
   definition |-> TableNames(name, version)]

\* publish that returns at the first default whatever its version (a mutant
\* of PublishTarget)
PublishTargetUnlessDefault(cat, name, version) ==
  LET versions == SelectVersions(cat, name)
  IN IF \E i \in 1..Len(versions) : versions[i].isDefault THEN NoVersion
     ELSE IF versions[1].version # version THEN version ELSE NoVersion

\* Dataset.publish: the version to hand to makeDefaultVersion, NoVersion when
\* nothing is to be done
PublishTarget(cat, name, version) ==
  LET versions == SelectVersions(cat, name)
      defaults == {i \in 1..Len(versions) : versions[i].isDefault}
      first == CHOOSE i \in defaults : \A j \in defaults : i <= j
  IN IF defaults # {}
     THEN IF versions[first].version # version THEN version ELSE NoVersion
     ELSE IF versions[1].version # version THEN version ELSE NoVersion

\* Dataset.save: INSERT INTO datasets (the dataset of a load is always new)
SaveInsert ==
  /\ pc = "save_insert"
  /\ catalog' = Append(catalog, NewRow(cmd.name, dsVersion))
  /\ IF cmd.publish
     THEN /\ pc' = "publish"
          /\ out' = out
     ELSE /\ pc' = "done"
          /\ out' = "ok"
  /\ UNCHANGED <<tables, day, cmd, dsVersion, mdv, ret, rmf, drop, pre, last,
                 incIn, incOut, svc>>

\* Dataset.save(true): publish after the insert
SavePublish ==
  /\ pc = "publish"
  /\ IF PublishTarget(catalog, cmd.name, dsVersion) = NoVersion
     THEN /\ pc' = "done"
          /\ out' = "ok"
          /\ UNCHANGED <<mdv, ret>>
     ELSE /\ pc' = "md_select"
          /\ out' = out
          /\ mdv' = dsVersion
          /\ ret' = "done"
  /\ UNCHANGED <<catalog, tables, day, cmd, dsVersion, rmf, drop, pre, last,
                 incIn, incOut, svc>>

\* ------------------------------------------------------------ make-default

\* makeDefaultVersion: the checks on its first SELECT
MakeDefaultRejected(cat, name, version) ==
  LET versions == SelectVersions(cat, name)
  IN \/ Len(versions) < 1
     \/ version # Latest /\ ~\E i \in 1..Len(versions) : versions[i].version = version

\* makeDefaultVersion: the check on its last SELECT (the rows with is__default)
MakeDefaultCheckFails(cat, name, version) ==
  LET versions == SelectVersions(cat, name)
      isDefault(r) == r.isDefault
      defaultVersions == SelectSeq(versions, isDefault)
  IN Len(defaultVersions) # 1 \/ defaultVersions[1].version # version

\* makeDefaultVersion returns to its caller: the cli (make-default), or save
\* (through ensureDefaultVersion or publish), which goes on whatever happened
MakeDefaultReturn(failed) ==
  /\ pc' = ret
  /\ out' = IF ret # "done" THEN out
            ELSE IF cmd.op = "make-default" /\ failed THEN "failed" ELSE "ok"

\* make-default (cli): Dataset.makeDefaultVersion(args.dataset, args.version)
MakeDefault(n, v) ==
  /\ pc = "idle"
  /\ cmd' = [op |-> "make-default", name |-> n, version |-> v, publish |-> FALSE]
  /\ pre' = Snapshot
  /\ last' = NoLast
  /\ mdv' = v
  /\ ret' = "done"
  /\ pc' = "md_select"
  /\ out' = "none"
  /\ UNCHANGED <<catalog, tables, day, dsVersion, rmf, drop, incIn, incOut, svc>>

\* makeDefaultVersion: its first SELECT and the checks on it
MakeDefaultSelect ==
  /\ pc = "md_select"
  /\ IF MakeDefaultRejected(catalog, cmd.name, mdv)
     THEN MakeDefaultReturn(TRUE)
     ELSE pc' = "md_unset" /\ out' = out
  /\ UNCHANGED <<catalog, tables, day, cmd, dsVersion, mdv, ret, rmf, drop,
                 pre, last, incIn, incOut, svc>>

\* makeDefaultVersion: "Unset any default version"
MakeDefaultUnset ==
  /\ pc = "md_unset"
  /\ catalog' = UnsetDefault(catalog, cmd.name)
  /\ IF mdv = Latest
     THEN MakeDefaultReturn(FALSE)
     ELSE pc' = "md_set" /\ out' = out
  /\ UNCHANGED <<tables, day, cmd, dsVersion, mdv, ret, rmf, drop, pre, last,
                 incIn, incOut, svc>>

\* makeDefaultVersion: "Set the given version to be the default"
MakeDefaultSet ==
  /\ pc = "md_set"
  /\ catalog' = SetDefault(catalog, cmd.name, mdv)
  /\ pc' = "md_check"
  /\ UNCHANGED <<tables, day, cmd, dsVersion, mdv, ret, rmf, drop, out, pre,
                 last, incIn, incOut, svc>>

\* makeDefaultVersion: the SELECT of the default versions and the check on it
MakeDefaultCheck ==
  /\ pc = "md_check"
  /\ MakeDefaultReturn(MakeDefaultCheckFails(catalog, cmd.name, mdv))
  /\ UNCHANGED <<catalog, tables, day, cmd, dsVersion, mdv, ret, rmf, drop,
                 pre, last, incIn, incOut, svc>>

\* ------------------------------------------------------------------ delete

\* remove that never refuses (a mutant of RemoveLatestRefused)
RemoveLatestNeverRefused(cat, name) == FALSE

\* Dataset.remove with version 'latest': the SELECT of the versions says
\* whether there is something to delete and whether it may be deleted
RemoveLatestRefused(cat, name) ==
  LET versions == SelectVersions(cat, name)
  IN Len(versions) > 0 /\ versions[1].isDefault

\* Dataset.remove: the filter on version of its statements
RemoveFilter(cat, name, version) ==
  IF version = All THEN [all |-> TRUE, versions |-> {}]
  ELSE IF version = Latest
  THEN [all |-> FALSE, versions |-> {SelectVersions(cat, name)[1].version}]
  ELSE [all |-> FALSE, versions |-> {version}]

\* the table names of the definitions of the selected rows
SelectedTables(cat, name, filter) ==
  UNION {cat[i].definition : i \in {j \in 1..Len(cat) : Matches(cat[j], name, filter)}}

\* delete (cli): Dataset.remove(args.dataset, args.version), up to and with
\* its SELECT of the definitions
Remove(n, v) ==
  /\ pc = "idle"
  /\ cmd' = [op |-> "delete", name |-> n, version |-> v, publish |-> FALSE]
  /\ pre' = Snapshot
  /\ last' = IF last.valid /\ last.name = n /\ last.version = v THEN last ELSE NoLast
  /\ IF v = Latest /\ Len(SelectVersions(catalog, n)) < 1
     THEN \* nothing to delete
          /\ pc' = "done"
          /\ out' = "ok"
          /\ UNCHANGED <<rmf, drop>>
     ELSE IF v = Latest /\ RemoveLatestRefused(catalog, n)
     THEN \* Won't delete the default version
          /\ pc' = "done"
          /\ out' = "failed"
          /\ UNCHANGED <<rmf, drop>>
     ELSE /\ pc' = "rm_drop"
          /\ out' = "none"
          /\ rmf' = RemoveFilter(catalog, n, v)
          /\ drop' = SelectedTables(catalog, n, RemoveFilter(catalog, n, v))
  /\ UNCHANGED <<catalog, tables, day, dsVersion, mdv, ret, incIn, incOut, svc>>

\* Dataset.remove: DROP TABLE for every table name (a table that does not
\* exist is passed over)
RemoveDrop ==
  /\ pc = "rm_drop"
  /\ tables' = tables \ drop
  /\ pc' = "rm_delete"
  /\ UNCHANGED <<catalog, day, cmd, dsVersion, mdv, ret, rmf, drop, out, pre,
                 last, incIn, incOut, svc>>

\* Dataset.remove: DELETE FROM datasets
RemoveDelete ==
  /\ pc = "rm_delete"
  /\ catalog' = DeleteRows(catalog, cmd.name, rmf)
  /\ pc' = "done"
  /\ out' = "ok"
  /\ UNCHANGED <<tables, day, cmd, dsVersion, mdv, ret, rmf, drop, pre, last,
                 incIn, incOut, svc>>

\* ------------------------------------------------------------------- purge

\* purge (cli): Dataset.purge(args.dataset), its SELECT and loop, and of the
\* remove it calls with the list of versions the SELECT of the definitions
Purge(n) ==
  /\ pc = "idle"
  /\ cmd' = [op |-> "purge", name |-> n, version |-> NoVersion, publish |-> FALSE]
  /\ pre' = Snapshot
  /\ last' = NoLast
  /\ LET versionsToDelete == PurgeToDelete(SelectVersions(catalog, n))
         filter == [all |-> FALSE, versions |-> Range(versionsToDelete)]
     IN IF Len(versionsToDelete) > 0
        THEN /\ pc' = "rm_drop"
             /\ out' = "none"
             /\ rmf' = filter
             /\ drop' = SelectedTables(catalog, n, filter)
        ELSE /\ pc' = "done"
             /\ out' = "ok"
             /\ UNCHANGED <<rmf, drop>>
  /\ UNCHANGED <<catalog, tables, day, dsVersion, mdv, ret, incIn, incOut, svc>>

\* ------------------------------------------------------------ environment

\* the command has ended: the next one may start
Finish ==
  /\ pc = "done"
  /\ pc' = "idle"
  /\ last' = IF cmd.op = "load" /\ out = "ok" /\ cmd.version # NoVersion
             THEN [name |-> cmd.name, version |-> cmd.version,
                   publish |-> cmd.publish, catalog |-> pre.catalog,
                   tables |-> pre.tables, valid |-> TRUE]
             ELSE NoLast
  /\ cmd' = NoCmd
  /\ dsVersion' = NoVersion
  /\ mdv' = NoVersion
  /\ ret' = "done"
  /\ rmf' = NoFilter
  /\ drop' = {}
  /\ out' = "none"
  /\ pre' = NoSnapshot
  /\ UNCHANGED <<catalog, tables, day, incIn, incOut, svc>>

\* the versions of the rows of the catalog
CatalogVersions == {catalog[i].version : i \in 1..Len(catalog)}

Next ==
  \/ \E n \in Names, v \in {NoVersion, Latest} \cup ExplicitVersions, pub \in BOOLEAN :
       LoadOpen(n, v, pub)
  \/ LoadIngest
  \/ SaveEnsureDefault
  \/ SaveInsert
  \/ SavePublish
  \/ \E n \in Names, v \in {Latest} \cup ExplicitVersions \cup CatalogVersions :
       MakeDefault(n, v)
  \/ MakeDefaultSelect
  \/ MakeDefaultUnset
  \/ MakeDefaultSet
  \/ MakeDefaultCheck
  \/ \E n \in Names, v \in {Latest, All} \cup ExplicitVersions \cup CatalogVersions :
       Remove(n, v)
  \/ RemoveDrop
  \/ RemoveDelete
  \/ \E n \in Names : Purge(n)
  \/ Finish

Spec == Init /\ [][Next]_vars

\* ------------------------------------------------ incrementVersion alone

\* YYYYMMDD of a day
FormatDay(date) == Pad(date.y, 4) \o Pad(date.m, 2) \o Pad(date.d, 2)

\* The beginnings of the versions incrementVersion is applied to: the days
\* of the model, the day before and the day after, eight digits that name
\* no day, a letter, and nothing.
PriorRoots ==
  {FormatDay(Today(d)) : d \in -1..(MaxDay + 1)}
    \cup {<<"2", "0", "2", "6", "1", "3", "0", "1">>, <<"v">>, <<>>}

\* The versions incrementVersion is applied to: none, every root followed by
\* every two digits, and some that do not end with two digits.
PriorVersions ==
  {NoVersion}
    \cup {root \o Pad(nn, 2) : root \in PriorRoots, nn \in 0..99}
    \cup {<<"v">>, <<"v", "1">>, <<"1">>, <<"v", "1", "a">>}

IncInit ==
  /\ catalog = <<>>
  /\ tables = {}
  /\ day \in 0..MaxDay
  /\ pc = "idle"
  /\ cmd = NoCmd
  /\ dsVersion = NoVersion
  /\ mdv = NoVersion
  /\ ret = "done"
  /\ rmf = NoFilter
  /\ drop = {}
  /\ out = "none"
  /\ pre = NoSnapshot
  /\ last = NoLast
  /\ incIn \in PriorVersions
  /\ incOut = NoVersion
  /\ SvcAtRest

\* ds.incrementVersion() on a dataset whose version is incIn
IncApply ==
  /\ incOut = NoVersion
  /\ incOut' = IncrementVersion(incIn, Today(day))
  /\ UNCHANGED <<catalog, tables, day, pc, cmd, dsVersion, mdv, ret, rmf, drop,
                 out, pre, last, incIn, svc>>

IncNext == IncApply

IncSpec == IncInit /\ [][IncNext]_vars

\* -------------------------------------------------------------- admission

\* toobusy-js: the event loop lags more than the maxLag it was given
TooBusy(lag, maxLag) == lag > maxLag

\* admission with the queue compared by > (a mutant of TooBusyToServe)
TooBusyToServeAbove(forTesting, CPUThrottle, DBThrottle, lag, taskQueueSize) ==
  /\ ~forTesting
  /\ \/ CPUThrottle # 0 /\ TooBusy(lag, CPUThrottle)
     \/ DBThrottle # 0 /\ taskQueueSize > DBThrottle

\* the middleware in front of the routes: TRUE when it throws 503.  It is
\* installed only if the service was not started for testing.
TooBusyToServe(forTesting, CPUThrottle, DBThrottle, lag, taskQueueSize) ==
  /\ ~forTesting
  /\ \/ CPUThrottle # 0 /\ TooBusy(lag, CPUThrottle)
     \/ DBThrottle # 0 /\ taskQueueSize >= DBThrottle

\* the configurations and the loads a request arrives in
AdmitInputs ==
  [kind : {"admit"}, forTesting : BOOLEAN,
   CPUThrottle : 0..MaxThrottle, DBThrottle : 0..MaxThrottle,
   lag : 0..(MaxThrottle + 1), taskQueueSize : 0..(MaxThrottle + 1)]

AdmitInit ==
  /\ AdminAtRest
  /\ req = NoReq /\ ds = NoDataset /\ resp = NoResp /\ loc = NoLoc
  /\ hpc = "idle"
  /\ arg \in AdmitInputs
  /\ res = NoRes

\* a request arrives: the middleware throws 503 or calls next(), and the
\* routes answer (200 stands for any answer of a route)
Admit ==
  /\ res = NoRes
  /\ res' = [kind |-> "admit",
             routed |-> ~TooBusyToServe(arg.forTesting, arg.CPUThrottle,
                                        arg.DBThrottle, arg.lag, arg.taskQueueSize),
             status |-> IF TooBusyToServe(arg.forTesting, arg.CPUThrottle,
                                          arg.DBThrottle, arg.lag, arg.taskQueueSize)
                        THEN 503 ELSE 200]
  /\ UNCHANGED <<catalog, tables, day, pc, cmd, dsVersion, mdv, ret, rmf, drop,
                 out, pre, last, incIn, incOut, req, ds, resp, loc, hpc, arg>>

AdmitNext == Admit

AdmitSpec == AdmitInit /\ [][AdmitNext]_vars

\* ------------------------------------------------------- the response body

\* the cells of a database row, each written as its JSON text: null, the
\* numbers 0 and 7
Null == "null"

ValueCells == {Null, "0", "7"}

\* JavaScript: if (cell).  null, 0, false and the empty string are falsy.
Truthy(cell) == cell \notin {Null, "0", "false", "\"\""}

Columns(prefix, n) == [i \in 1..n |-> <<prefix, DigitStr[i + 1]>>]

\* the sequences over a set, up to a length
SeqsUpTo(S, n) == UNION {[1..k -> S] : k \in 0..n}

\* Query.header
Header(query) == query.select.key \o query.select.value

\* Query.isForData
IsForData(query) == query.from = "datapoints"

\* the stream Dataset.queryStream resolves to: the rows of the database, or,
\* when there is none, ArrayStream([ [] ]): one empty record
RecordStream(records) == IF records = <<>> THEN << <<>> >> ELSE records

\* Query.isForSchema: /([a-z]+|\*)\.schema/.test(from)
IsForSchema(from) ==
  from \in {"concepts.schema", "entities.schema", "datapoints.schema", "*.schema"}

\* Dataset.queryStream: a schema query is answered from the schema held in
\* memory, new ArrayStream(_querySchema(kind)), which has no record when the
\* kind has no entry; any other query goes to the database
QueryStream(query, records) ==
  IF IsForSchema(query.from) THEN records ELSE RecordStream(records)

\* RecordPrinter._transform: TRUE when the record is pushed into "rows".
\* firstValueIndex counts from 0 as in the code, the cells from 1.
PrinterPushes(filterNullRecords, firstValueIndex, record) ==
  filterNullRecords
    => \E idx \in (firstValueIndex + 1)..Len(record) : Truthy(record[idx])

\* the queries and the rows the database gives for them
PrintInput(f, nk, nv, cells) ==
  [kind |-> "print",
   query |-> [from |-> f,
              select |-> [key |-> Columns("k", nk), value |-> Columns("v", nv)]],
   records |-> [i \in 1..Len(cells) |-> [j \in 1..nk |-> "\"a\""] \o cells[i]]]

PrintInit ==
  /\ AdminAtRest
  /\ req = NoReq /\ ds = NoDataset /\ resp = NoResp /\ loc = NoLoc
  /\ hpc = "idle"
  /\ \E f \in {"concepts", "entities", "datapoints", "entities.schema"},
        nk \in 1..2, nv \in 0..MaxValues :
       \E cells \in SeqsUpTo([1..nv -> ValueCells], MaxRecords) :
         arg = PrintInput(f, nk, nv, cells)
  /\ res = NoRes

\* Dataset.queryStream resolves; the handler makes the RecordPrinter and
\* pipes the stream into it.  "info" is the entry ddfQuery.info() records.
PrintPipe ==
  /\ res = NoRes
  /\ res' = [kind |-> "print",
             stream |-> QueryStream(arg.query, arg.records),
             info |-> ~IsForSchema(arg.query.from) /\ arg.records = <<>>,
             filterNullRecords |-> IsForData(arg.query),
             firstValueIndex |-> Len(arg.query.select.key),
             preamble |-> FALSE, header |-> <<>>, rows |-> <<>>,
             flushed |-> FALSE]
  /\ UNCHANGED <<catalog, tables, day, pc, cmd, dsVersion, mdv, ret, rmf, drop,
                 out, pre, last, incIn, incOut, req, ds, resp, loc, hpc, arg>>

\* RecordPrinter._transform(record)
PrintTransform ==
  /\ res.kind = "print"
  /\ res.stream # <<>>
  /\ LET record == Head(res.stream)
     IN res' = [res EXCEPT
                  !.stream = Tail(res.stream),
                  !.preamble = TRUE,
                  !.header = IF res.preamble THEN res.header ELSE Header(arg.query),
                  !.rows = IF PrinterPushes(res.filterNullRecords,
                                            res.firstValueIndex, record)
                           THEN Append(res.rows, record) ELSE res.rows]
  /\ UNCHANGED <<catalog, tables, day, pc, cmd, dsVersion, mdv, ret, rmf, drop,
                 out, pre, last, incIn, incOut, req, ds, resp, loc, hpc, arg>>

\* RecordPrinter._flush()
PrintFlush ==
  /\ res.kind = "print"
  /\ res.stream = <<>>
  /\ ~res.flushed
  /\ res' = [res EXCEPT !.flushed = TRUE]
  /\ UNCHANGED <<catalog, tables, day, pc, cmd, dsVersion, mdv, ret, rmf, drop,
                 out, pre, last, incIn, incOut, req, ds, resp, loc, hpc, arg>>

PrintNext == PrintPipe \/ PrintTransform \/ PrintFlush

PrintSpec == PrintInit /\ [][PrintNext]_vars

\* ------------------------------------------------------------ the queries

\* the concepts of the dataset the queries are put to
Concept == <<"c", "o", "n", "c", "e", "p", "t">>
Geo == <<"g", "e", "o">>
Country == <<"c", "o", "u", "n", "t", "r", "y">>
Time == <<"t", "i", "m", "e">>
Year == <<"y", "e", "a", "r">>
Population == <<"p", "o", "p">>
Gdp == <<"g", "d", "p">>
Name == <<"n", "a", "m", "e">>

\* DDFSchema.domains: the entity sets and their domains
HasDomain(k) == k = Country

\* this.domains[k] || k
DomainOf(k) == IF HasDomain(k) THEN Geo ELSE k

MapSeq(s, Op(_)) == [i \in 1..Len(s) |-> Op(s[i])]

\* the kinds of the schema and, for each, its one table: key and values
SchemaKinds == {"concepts", "entities", "datapoints"}

SchemaKey(kind) ==
  IF kind = "concepts" THEN <<Concept>>
  ELSE IF kind = "entities" THEN <<Geo>>
  ELSE <<Geo, Time>>

SchemaValues(kind) ==
  IF kind = "datapoints" THEN <<Gdp, Population>> ELSE <<Name>>

\* this[ddfQuery.from]: the kinds, and any other property of the schema
\* object ("domains" stands for them)
SchemaHas(from) == from \in SchemaKinds \cup {"domains"}

\* DDFSchema.definitionFor(kind, key): is there a definition under the
\* table key key.map(k => this.domains[k] || k).sort().join('$')
HasDefinitionFor(kind, key) ==
  /\ kind \in SchemaKinds
  /\ Len(key) = Len(SchemaKey(kind))
  /\ Range(MapSeq(key, DomainOf)) = Range(SchemaKey(kind))

\* DDFSchema.tableFor(kind, key): the kind whose table it is, "" for null
TableFor(kind, key) == IF HasDefinitionFor(kind, key) THEN kind ELSE ""

\* DDFSchema.isInTimeDomain(key)
IsInTimeDomain(key) ==
  Len(key) = 1 /\ key[1] \in {Time, Year, <<"q", "u", "a", "r", "t", "e", "r">>,
                             <<"m", "o", "n", "t", "h">>, <<"w", "e", "e", "k">>,
                             <<"d", "a", "y">>}

\* the static constructors of errors.js, by class
QueryErrorStatics == {"NotSupported"}

QuerySyntaxErrorStatics ==
  QueryErrorStatics \cup {"MissingSelect", "WrongSelectKey", "WrongSelectValue",
                          "MissingFrom", "WrongFrom", "WrongOrderBy"}

\* no constructor beyond those errors.js holds (a mutant of MissingStatics)
MissingStaticsNone(class) == {}

\* constructors the compiler calls that errors.js does not hold: by class
MissingStatics(class) ==
  IF class = "QuerySyntaxError" THEN {"WrongJoin", "WrongWhere", "WrongLanguage"}
  ELSE {"WrongOrderBy"}

\* Class.Static(query): the error it makes
MakeError(class, static) ==
  IF \/ static \in MissingStatics(class)
     \/ class = "QueryError" /\ static \in QueryErrorStatics
     \/ class = "QuerySyntaxError" /\ static \in QuerySyntaxErrorStatics
  THEN [class |-> class, code |-> static]
  ELSE [class |-> "TypeError", code |-> static]

NoError == [class |-> "none", code |-> ""]

\* err instanceof QueryError
IsQueryError(err) == err.class \in {"QueryError", "QuerySyntaxError"}

LowerLetters ==
  {"a", "b", "c", "d", "e", "f", "g", "h", "i", "j", "k", "l", "m", "n", "o",
   "p", "q", "r", "s", "t", "u", "v", "w", "x", "y", "z"}

UpperLetters ==
  {"A", "B", "C", "D", "E", "F", "G", "H", "I", "J", "K", "L", "M", "N", "O",
   "P", "Q", "R", "S", "T", "U", "V", "W", "X", "Y", "Z"}

\* /^[a-zA-Z]{2,3}([_-]{1}[-_a-zA-Z0-9]{2,15})?$/.test(language)
IsLanguage(s) ==
  \E n \in 2..3 :
    /\ Len(s) >= n
    /\ \A i \in 1..n : s[i] \in LowerLetters \cup UpperLetters
    /\ \/ Len(s) = n
       \/ /\ s[n + 1] \in {"_", "-"}
          /\ Len(s) - (n + 1) \in 2..15
          /\ \A i \in (n + 2)..Len(s) :
               s[i] \in LowerLetters \cup UpperLetters \cup Range(DigitStr) \cup {"_", "-"}

\* /^\$[_a-z0-9]+/.test(joinOn)
IsJoinVar(s) ==
  /\ Len(s) >= 2
  /\ s[1] = "$"
  /\ s[2] \in LowerLetters \cup Range(DigitStr) \cup {"_"}

\* Query.validateSyntax: the error it throws, NoError when it returns
ValidateSyntax(q) ==
  IF q.language # <<>> /\ ~IsLanguage(q.language)
  THEN MakeError("QuerySyntaxError", "WrongLanguage")
  ELSE IF q.selectT # "object" THEN MakeError("QuerySyntaxError", "MissingSelect")
  ELSE IF q.keyT # "array" THEN MakeError("QuerySyntaxError", "WrongSelectKey")
  ELSE IF q.valueT # "array" THEN MakeError("QuerySyntaxError", "WrongSelectValue")
  ELSE IF q.fromT # "string" THEN MakeError("QuerySyntaxError", "MissingFrom")
  ELSE IF q.orderT = "absent" THEN NoError
  ELSE IF q.orderT # "array" THEN MakeError("QuerySyntaxError", "WrongOrderBy")
  ELSE IF \E i \in 1..Len(q.order_by) :
            /\ q.order_by[i].form = "object"
            /\ q.order_by[i].direction \notin {"asc", "desc"}
       THEN MakeError("QuerySyntaxError", "WrongOrderBy")
  ELSE NoError

\* Query.validateSyntax: normalizedOrderBy, a string element sorts ascending
NormalizedOrderBy(q) ==
  [i \in 1..Len(q.order_by) |->
     [field |-> q.order_by[i].field,
      direction |-> IF q.order_by[i].form = "string" THEN "asc"
                    ELSE q.order_by[i].direction]]

\* DDFSchema._addFilter: the error it throws on a condition that is null
AddFilterError(filter) ==
  IF \E i \in 1..Len(filter) : filter[i].cond = "null"
  THEN MakeError("QuerySyntaxError", "WrongWhere")
  ELSE NoError

\* DDFSchema._addJoin: TRUE when it throws (the table is joined already,
\* on another field)
AddJoinConflicts(joins, foreignTable, on) ==
  \E i \in 1..Len(joins) : joins[i].inner = foreignTable /\ joins[i].on # on

\* DDFSchema._addJoin: the joins after it
AddJoin(joins, foreignTable, on) ==
  IF \E i \in 1..Len(joins) : joins[i].inner = foreignTable
  THEN joins
  ELSE Append(joins, [inner |-> foreignTable, on |-> on])

\* DDFSchema.sqlFor: the joins the key of the query brings, one on the table
\* of the domain for each entity set in select.key (none for from = entities)
KeyJoins(q) ==
  LET RECURSIVE loop(_, _)
      loop(i, joins) ==
        IF i > Len(q.key) THEN joins
        ELSE IF HasDomain(q.key[i]) /\ q.from # "entities"
             THEN loop(i + 1, AddJoin(joins, TableFor("entities", <<DomainOf(q.key[i])>>),
                                      DomainOf(q.key[i])))
             ELSE loop(i + 1, joins)
  IN loop(1, <<>>)

\* DDFSchema.sqlFor: the loop over ddfQuery.join; the error it throws and
\* the joins it has added
JoinLoop(q, table, key, joins0) ==
  LET RECURSIVE loop(_, _)
      loop(i, joins) ==
        IF i > Len(q.join) THEN [error |-> NoError, joins |-> joins]
        ELSE
          LET j == q.join[i]
              foreignTable ==
                IF IsInTimeDomain(j.key) /\ \A n \in 1..Len(j.key) : j.key[n] \in Range(key)
                THEN table ELSE TableFor("entities", j.key)
              on == DomainOf(Tail(j.var))
          IN IF ~IsJoinVar(j.var) \/ j.specNull \/ foreignTable = ""
             THEN [error |-> MakeError("QuerySyntaxError", "WrongJoin"), joins |-> joins]
             ELSE IF AddFilterError(j.where) # NoError
             THEN [error |-> AddFilterError(j.where), joins |-> joins]
             ELSE IF foreignTable = table THEN loop(i + 1, joins)
             ELSE IF AddJoinConflicts(joins, foreignTable, on)
             THEN [error |-> [class |-> "QueryError", code |-> "SecondJoin"],
                   joins |-> joins]
             ELSE loop(i + 1, AddJoin(joins, foreignTable, on))
  IN loop(1, joins0)

\* Table.sqlFor: the ORDER BY clause, its terms and what it puts between them
OrderByClause(sort) == [terms |-> sort, separator |-> "AND "]

NoSql == [error |-> NoError, sort |-> <<>>, warn |-> <<>>, orderBy |-> OrderByClause(<<>>)]

\* DDFSchema.sqlFor(ddfQuery): the error it throws, or the sort it emits
\* and the warnings it records on the query
SqlFor(q) ==
  LET key == MapSeq(q.key, DomainOf)
      table == TableFor(q.from, key)
      projection == key \o q.value
      joined == JoinLoop(q, table, key, KeyJoins(q))
      values == projection \o SchemaValues(q.from)
      orderBy == NormalizedOrderBy(q)
      known(spec) == spec.field \in Range(values)
      unknown(spec) == spec.field \notin Range(values)
      dropped == SelectSeq(orderBy, unknown)
      warning == MakeError("QueryError", "WrongOrderBy")
  IN IF ~SchemaHas(q.from) \/ table = ""
     THEN [NoSql EXCEPT !.error = MakeError("QueryError", "NotSupported")]
     ELSE IF joined.error # NoError THEN [NoSql EXCEPT !.error = joined.error]
     ELSE IF AddFilterError(q.where) # NoError
     THEN [NoSql EXCEPT !.error = AddFilterError(q.where)]
     ELSE IF dropped # <<>> /\ warning.class = "TypeError"
     THEN [NoSql EXCEPT !.error = warning]
     ELSE [error |-> NoError,
           sort |-> SelectSeq(orderBy, known),
           warn |-> [i \in 1..Len(dropped) |-> dropped[i].field],
           orderBy |-> OrderByClause(SelectSeq(orderBy, known))]

\* the database parses the statement: the terms of ORDER BY are separated
\* by commas
SqlParses(sql) == Len(sql.orderBy.terms) <= 1 \/ sql.orderBy.separator = ", "

\* the query route handler, its first try block: every error of new
\* Query(json) is answered 400
SyntaxStatus(err) == IF err = NoError THEN 0 ELSE 400

\* the query route handler, the catch of its second try block: the status
\* it throws for an error
ErrorStatus(err) ==
  IF err.code = "PASSWORD_REQUIRED" THEN 401
  ELSE IF err.code = "DDF_DATASET_NOT_FOUND" THEN 404
  ELSE IF IsQueryError(err) THEN 400
  ELSE IF err.code = "ER_GET_CONNECTION_TIMEOUT" THEN 503
  ELSE IF err.code = "ER_BAD_FIELD_ERROR" THEN 400
  ELSE 500

\* a query that is well formed: the population by geo and time
BaseQuery ==
  [language |-> <<>>, selectT |-> "object",
   keyT |-> "array", key |-> <<Geo, Time>>,
   valueT |-> "array", value |-> <<Population>>,
   fromT |-> "string", from |-> "datapoints",
   orderT |-> "absent", order_by |-> <<>>, join |-> <<>>, where |-> <<>>]

\* the elements of order_by: a field name, or an object {field: direction}
OrderElems ==
  {e \in [field : {Time, Geo, Country, Population, Gdp, Year},
          form : {"string", "object"}, direction : {"asc", "desc", "up"}] :
     e.form = "string" => e.direction = "asc"}

CompileInputs ==
  {[kind |-> "compile",
    query |-> [BaseQuery EXCEPT !.key = k, !.orderT = "array", !.order_by = o]] :
     k \in {<<Geo, Time>>, <<Country, Time>>},
     o \in SeqsUpTo(OrderElems, MaxOrderBy)}

CompileInit ==
  /\ AdminAtRest
  /\ req = NoReq /\ ds = NoDataset /\ resp = NoResp /\ loc = NoLoc
  /\ hpc = "idle"
  /\ arg \in CompileInputs
  /\ res = NoRes

\* new Query(json)
CompileNew ==
  /\ res = NoRes
  /\ res' = [kind |-> "compile",
             stage |-> IF ValidateSyntax(arg.query) = NoError THEN "parsed" ELSE "done",
             status |-> SyntaxStatus(ValidateSyntax(arg.query)),
             sql |-> NoSql]
  /\ UNCHANGED <<catalog, tables, day, pc, cmd, dsVersion, mdv, ret, rmf, drop,
                 out, pre, last, incIn, incOut, req, ds, resp, loc, hpc, arg>>

\* this.schema.sqlFor(ddfQuery)
CompileSqlFor ==
  /\ res.kind = "compile"
  /\ res.stage = "parsed"
  /\ LET sql == SqlFor(arg.query)
     IN res' = [res EXCEPT
                  !.stage = IF sql.error = NoError THEN "compiled" ELSE "done",
                  !.status = IF sql.error = NoError THEN 0 ELSE ErrorStatus(sql.error),
                  !.sql = sql]
  /\ UNCHANGED <<catalog, tables, day, pc, cmd, dsVersion, mdv, ret, rmf, drop,
                 out, pre, last, incIn, incOut, req, ds, resp, loc, hpc, arg>>

\* connection.queryStream({ sql }): the database runs the statement, or
\* rejects it with ER_PARSE_ERROR
CompileQuery ==
  /\ res.kind = "compile"
  /\ res.stage = "compiled"
  /\ res' = [res EXCEPT
               !.stage = "done",
               !.status = IF SqlParses(res.sql) THEN 200
                          ELSE ErrorStatus([class |-> "SqlError",
                                            code |-> "ER_PARSE_ERROR"])]
  /\ UNCHANGED <<catalog, tables, day, pc, cmd, dsVersion, mdv, ret, rmf, drop,
                 out, pre, last, incIn, incOut, req, ds, resp, loc, hpc, arg>>

CompileNext == CompileNew \/ CompileSqlFor \/ CompileQuery

CompileSpec == CompileInit /\ [][CompileNext]_vars

\* ------------------------------------------------------------ the service

\* the versions the admin loads while the service runs
ServedVersions == {<<"v", DigitStr[i + 1]>> : i \in 1..MaxServed}

\* no password: the column is NULL
NoPassword == <<>>

Passwords == {<<"p">>, <<"q">>}

\* Crypto.createHash('sha256').update(password).digest('hex'): a digest
\* that differs from the password and, over Passwords, from any other digest
Sha256(password) == <<"s", "h", "a", ":">> \o password

\* BasicAuth(ctx.req): no Authorization header, or a user and a password
Credentials ==
  {NoCredential} \cup [name : Names, pass : Passwords, given : {TRUE}]

\* the row of a version loaded with --password (or without)
ServedRow(name, version, password) ==
  [name |-> name, version |-> version, isDefault |-> FALSE,
   definition |-> TableNames(name, version),
   password |-> IF password = NoPassword THEN NoPassword ELSE Sha256(password)]

\* Dataset.open: doc.password of the row it loads the dataset from, docs[0]
OpenPassword(cat, name, version) ==
  LET versioned(r) == r.version = version
      docs == IF version = Latest THEN SelectVersions(cat, name)
              ELSE IF version # NoVersion
              THEN SelectSeq(SelectVersions(cat, name), versioned)
              ELSE SelectDefaultFirst(cat, name)
  IN IF Len(docs) >= 1 THEN docs[1].password ELSE NoPassword

\* no delete is under way: the tables of each row of the catalog exist
Settled == \A i \in 1..Len(catalog) : catalog[i].definition \subseteq tables

\* the admin loads (name, version), without --publish, while the service
\* runs: the command as a whole (its steps are LoadOpen .. SaveInsert)
ServiceLoad(n, v, password) ==
  /\ Settled
  /\ Len(catalog) < MaxServed
  /\ ~LoadRejected(catalog, n, v)
  /\ tables' = tables \cup TableNames(n, v)
  /\ catalog' =
       Append(IF EnsureDefaultTarget(catalog, n) = NoVersion THEN catalog
              ELSE SetDefault(UnsetDefault(catalog, n), n,
                              EnsureDefaultTarget(catalog, n)),
              ServedRow(n, v, password))
  /\ UNCHANGED <<day, pc, cmd, dsVersion, mdv, ret, rmf, drop, out, pre, last,
                 incIn, incOut, svc>>

\* the admin runs make-default (name, version) while the service runs
ServiceMakeDefault(n, v) ==
  /\ Settled
  /\ Open(catalog, n, v).found
  /\ catalog' = IF v = Latest THEN UnsetDefault(catalog, n)
                ELSE SetDefault(UnsetDefault(catalog, n), n, v)
  /\ UNCHANGED <<tables, day, pc, cmd, dsVersion, mdv, ret, rmf, drop, out, pre,
                 last, incIn, incOut, svc>>

\* the admin runs delete (name, version) while the service runs: remove
\* drops the tables first
ServiceDropTables(n, v) ==
  /\ Settled
  /\ Open(catalog, n, v).found
  /\ tables' = tables \ TableNames(n, v)
  /\ UNCHANGED <<catalog, day, pc, cmd, dsVersion, mdv, ret, rmf, drop, out, pre,
                 last, incIn, incOut, svc>>

\* ... and deletes the rows then
ServiceDeleteRows(n, v) ==
  /\ Open(catalog, n, v).found
  /\ TableNames(n, v) \cap tables = {}
  /\ catalog' = DeleteRows(catalog, n, [all |-> FALSE, versions |-> {v}])
  /\ UNCHANGED <<tables, day, pc, cmd, dsVersion, mdv, ret, rmf, drop, out, pre,
                 last, incIn, incOut, svc>>

\* ctx.throw(status, ...)
Thrown(status) == [NoResp EXCEPT !.status = status]

\* ctx.redirect(`/${dataset.name}/${dataset.version}?${ctx.querystring}`)
\* with the query dropped (a mutant of RedirectLocation)
RedirectLocationBare(name, version, hasQuery, query) ==
  [name |-> name, version |-> version, hasQuery |-> FALSE, query |-> NoQuery,
   valid |-> TRUE]

\* ctx.redirect(`/${dataset.name}/${dataset.version}?${ctx.querystring}`)
RedirectLocation(name, version, hasQuery, query) ==
  [name |-> name, version |-> version, hasQuery |-> hasQuery, query |-> query,
   valid |-> TRUE]

\* let version = ctx.params.version, left as the URL has it (a mutant of
\* AnsweredVersion)
AnsweredVersionOfUrl(segment, dataset) == segment

\* version = dataset.version; printer.datasetVersion = version
AnsweredVersion(segment, dataset) == dataset.version

\* Dataset.isProtected
IsProtected(dataset) == dataset.password # NoPassword

\* Dataset.verifyCredential with the user name left unchecked (a mutant of
\* VerifyCredential)
VerifyCredentialAnyName(credential, name, hashedPassword) ==
  /\ credential.given
  /\ Sha256(credential.pass) = hashedPassword

\* Dataset.verifyCredential: TRUE when no assertion fails
VerifyCredential(credential, name, hashedPassword) ==
  /\ credential.given
  /\ credential.name = name
  /\ Sha256(credential.pass) = hashedPassword

\* allowCaching = AllowCaching && dataset.isProtected !== true
AllowCaching(dataset) == arg.AllowCaching /\ ~IsProtected(dataset)

\* ctx.set('Cache-Control', allowCaching ? ... : ...)
CacheControl(allowCaching) ==
  IF allowCaching THEN "public, max-age=31536000, immutable"
  ELSE "no-cache, no-store, must-revalidate"

\* the 200 response of the query route
Ok(name, segment, dataset, acquired) ==
  [NoResp EXCEPT
     !.status = 200,
     !.version = AnsweredVersion(segment, dataset),
     !.readFrom = dataset.version,
     !.cacheControl = CacheControl(AllowCaching(dataset)),
     !.cacheTag = IF AllowCaching(dataset)
                  THEN [name |-> name, version |-> AnsweredVersion(segment, dataset)]
                  ELSE NoTag,
     !.acquired = acquired,
     !.streamed = TRUE]

\* the error the database gives for the statement, NoError when it runs
DbError(name, dataset, sql) ==
  IF ~SqlParses(sql) THEN [class |-> "Error", code |-> "ER_PARSE_ERROR"]
  ELSE IF ~(TableNames(name, dataset.version) \subseteq tables)
  THEN [class |-> "Error", code |-> "ER_NO_SUCH_TABLE"]
  ELSE NoError

\* a client sends GET /name/segment?query with or without credentials (a
\* client that was redirected follows the redirect first)
HReceive(n, segment, hasQuery, q, c) ==
  /\ hpc = "idle"
  /\ ~loc.valid
  /\ req' = [route |-> "query", name |-> n, version |-> segment,
             hasQuery |-> hasQuery, query |-> q, credential |-> c,
             follows |-> FALSE]
  /\ hpc' = "received"
  /\ UNCHANGED <<admin, ds, resp, loc, arg, res>>

\* a client follows the redirect it got last
HFollow(c) ==
  /\ hpc = "idle"
  /\ loc.valid
  /\ req' = [route |-> "query", name |-> loc.name, version |-> loc.version,
             hasQuery |-> loc.hasQuery, query |-> loc.query, credential |-> c,
             follows |-> TRUE]
  /\ hpc' = "received"
  /\ UNCHANGED <<admin, ds, resp, loc, arg, res>>

\* the list route: GET /
HList ==
  /\ hpc = "idle"
  /\ req' = [NoReq EXCEPT !.route = "list"]
  /\ resp' = [NoResp EXCEPT !.status = 200, !.cacheControl = CacheControl(FALSE)]
  /\ hpc' = "responded"
  /\ UNCHANGED <<admin, ds, loc, arg, res>>

\* the query route handler up to the end of Dataset.open: the first try
\* block, the lookup, the redirect
HOpen ==
  /\ hpc = "received"
  /\ LET err == IF ~req.hasQuery THEN [class |-> "Error", code |-> "NO_QUERY"]
                ELSE ValidateSyntax(req.query)
         doc == Open(catalog, req.name, req.version)
         dataset == [found |-> TRUE, version |-> doc.version,
                     password |-> OpenPassword(catalog, req.name, req.version)]
         location == RedirectLocation(req.name, doc.version, req.hasQuery, req.query)
     IN IF SyntaxStatus(err) # 0
        THEN /\ resp' = Thrown(SyntaxStatus(err))
             /\ hpc' = "responded"
             /\ UNCHANGED <<ds, loc>>
        ELSE IF ~doc.found
        THEN /\ resp' = Thrown(ErrorStatus([class |-> "Error",
                                            code |-> "DDF_DATASET_NOT_FOUND"]))
             /\ hpc' = "responded"
             /\ UNCHANGED <<ds, loc>>
        ELSE IF req.version = NoVersion
        THEN /\ resp' = [NoResp EXCEPT !.status = 302, !.location = location]
             /\ loc' = location
             /\ hpc' = "responded"
             /\ UNCHANGED ds
        ELSE /\ ds' = dataset
             /\ hpc' = "opened"
             /\ UNCHANGED <<resp, loc>>
  /\ UNCHANGED <<admin, req, arg, res>>

\* the query route handler from dataset.queryStream on
HQuery ==
  /\ hpc = "opened"
  /\ LET sql == SqlFor(req.query)
         dbErr == DbError(req.name, ds, sql)
     IN resp' =
          IF IsProtected(ds) /\ ~VerifyCredential(req.credential, req.name, ds.password)
          THEN [Thrown(ErrorStatus([class |-> "Error", code |-> "PASSWORD_REQUIRED"]))
                  EXCEPT !.wwwAuthenticate = req.name]
          ELSE IF IsForSchema(req.query.from)
          THEN Ok(req.name, req.version, ds, FALSE)
          ELSE IF sql.error # NoError THEN Thrown(ErrorStatus(sql.error))
          ELSE IF dbErr # NoError
          THEN [Thrown(ErrorStatus(dbErr)) EXCEPT !.acquired = TRUE]
          ELSE Ok(req.name, req.version, ds, TRUE)
  /\ hpc' = "responded"
  /\ UNCHANGED <<admin, req, ds, loc, arg, res>>

\* the response is sent, the handler is over (and the redirect is, once
\* it was followed)
HDone ==
  /\ hpc = "responded"
  /\ req' = NoReq
  /\ ds' = NoDataset
  /\ resp' = NoResp
  /\ loc' = IF req.follows THEN NoLoc ELSE loc
  /\ hpc' = "idle"
  /\ UNCHANGED <<admin, arg, res>>

\* the queries the clients of the service send: the population by geo and
\* time, the schema of the datapoints, and a query without select
ServiceQueries ==
  {BaseQuery, [BaseQuery EXCEPT !.from = "datapoints.schema"],
   [BaseQuery EXCEPT !.selectT = "absent"]}

HttpInit ==
  /\ AdminAtRest
  /\ req = NoReq /\ ds = NoDataset /\ resp = NoResp /\ loc = NoLoc
  /\ hpc = "idle"
  /\ arg \in [kind : {"service"}, AllowCaching : BOOLEAN]
  /\ res = NoRes

HttpNext ==
  \/ \E v \in ServedVersions, p \in {NoPassword, <<"p">>} :
       ServiceLoad(<<"t">>, v, p)
  \/ \E v \in ServedVersions \cup {Latest} : ServiceMakeDefault(<<"t">>, v)
  \/ \E v \in ServedVersions : ServiceDropTables(<<"t">>, v)
  \/ \E v \in ServedVersions : ServiceDeleteRows(<<"t">>, v)
  \/ \E n \in Names, segment \in {NoVersion, Latest} \cup ServedVersions,
        q \in ServiceQueries, c \in Credentials :
       HReceive(n, segment, TRUE, q, c)
  \/ \E c \in Credentials : HFollow(c)
  \/ HList
  \/ HOpen
  \/ HQuery
  \/ HDone

HttpSpec == HttpInit /\ [][HttpNext]_vars

\* a join on the entities of geo: {"$geo": {key: "geo", where: {}}}
GeoJoin ==
  [var |-> <<"$">> \o Geo, specNull |-> FALSE, key |-> <<Geo>>, where |-> <<>>]

\* a condition that is null: {geo: null}
NullCondition == [column |-> Geo, cond |-> "null"]

\* queries with an error Query.validateSyntax finds: select missing or no
\* object, select.key or select.value missing or no array, from missing or
\* no string, order_by no array or with a direction that is none, a
\* language that is none
SyntaxErrorQueries ==
  {[BaseQuery EXCEPT !.selectT = t] : t \in {"absent", "string"}}
  \cup {[BaseQuery EXCEPT !.keyT = t] : t \in {"absent", "string"}}
  \cup {[BaseQuery EXCEPT !.valueT = t] : t \in {"absent", "string"}}
  \cup {[BaseQuery EXCEPT !.fromT = t] : t \in {"absent", "number"}}
  \cup {[BaseQuery EXCEPT !.orderT = "object"],
        [BaseQuery EXCEPT !.orderT = "array",
                          !.order_by = <<[field |-> Time, form |-> "object",
                                          direction |-> "up"]>>],
        [BaseQuery EXCEPT !.language = <<"x">>]}

\* queries with an error DDFSchema.sqlFor finds: a join variable without $,
\* a where condition that is null (of the query, of a join), a from that is
\* not supported, a key no table has, a join on a table that is unknown, a
\* second join on the table of geo with another key
SemanticErrorQueries ==
  {[BaseQuery EXCEPT !.join = <<[GeoJoin EXCEPT !.var = Geo]>>],
   [BaseQuery EXCEPT !.where = <<NullCondition>>],
   [BaseQuery EXCEPT !.join = <<[GeoJoin EXCEPT !.where = <<NullCondition>>]>>],
   [BaseQuery EXCEPT !.from = "things"],
   [BaseQuery EXCEPT !.key = <<Geo>>],
   [BaseQuery EXCEPT !.join = <<[GeoJoin EXCEPT !.key = <<Gdp>>]>>],
   [BaseQuery EXCEPT !.join = <<GeoJoin, [GeoJoin EXCEPT !.var = <<"$">> \o Name]>>]}

\* the service with one dataset, t v1, without password
QueryInit ==
  /\ AdminAtRest
  /\ req = NoReq /\ ds = NoDataset /\ resp = NoResp /\ loc = NoLoc
  /\ hpc = "idle"
  /\ arg = [kind |-> "service", AllowCaching |-> TRUE]
  /\ res = NoRes

\* load t v1 (the only admin command here), while no request is handled
QueryLoad ==
  /\ catalog = <<>>
  /\ hpc = "idle"
  /\ ServiceLoad(<<"t">>, <<"v", "1">>, NoPassword)

QueryNext ==
  \/ QueryLoad
  \/ \E n \in Names, segment \in {NoVersion} \cup ServedVersions,
        q \in {BaseQuery} \cup SyntaxErrorQueries \cup SemanticErrorQueries :
       HReceive(n, segment, TRUE, q, NoCredential)
  \/ \E n \in Names, segment \in {NoVersion} \cup ServedVersions :
       HReceive(n, segment, FALSE, NoQuery, NoCredential)
  \/ HFollow(NoCredential)
  \/ HOpen
  \/ HQuery
  \/ HDone

QuerySpec == QueryInit /\ [][QueryNext]_vars

\* ---------------------------------------------------------- WideTable.split

\* the most columns of a table that is split
MaxSchema == 5

\* Table.MaxRowSize
MaxRowSize == 8000

\* Table.estimatedColumnSize of a column definition
EstimatedColumnSize(def) ==
  IF def.sqlType = "VARCHAR"
    THEN (def.size * (IF def.translated THEN 22 ELSE 11) + 25) \div 10
  ELSE IF def.sqlType \in {"TINYINT", "INTEGER", "BIGINT", "FLOAT"} THEN 4
  ELSE IF def.sqlType = "DOUBLE" THEN 8
  ELSE IF def.sqlType = "BOOLEAN" THEN 4
  ELSE IF def.sqlType \in {"JSON", "TEXT", "BLOB"} THEN 10
  ELSE 0

\* the key columns of the tables that are split: a number, an entity id
KeyDefs ==
  {[key |-> TRUE, sqlType |-> "INTEGER", size |-> 0, translated |-> FALSE],
   [key |-> TRUE, sqlType |-> "VARCHAR", size |-> 20, translated |-> FALSE]}

\* the other columns: a number, a string as wide as a VARCHAR gets, and a
\* translation of such a string (a column named _<name>--<language>)
ValueDefs ==
  {[key |-> FALSE, sqlType |-> "DOUBLE", size |-> 0, translated |-> FALSE],
   [key |-> FALSE, sqlType |-> "VARCHAR", size |-> 2000, translated |-> FALSE],
   [key |-> FALSE, sqlType |-> "VARCHAR", size |-> 2000, translated |-> TRUE]}

\* aTable.keys, as the positions of the key columns in aTable.schema
KeysOf(schema) ==
  LET IsKey(i) == schema[i].key
  IN SelectSeq([i \in 1..Len(schema) |-> i], IsKey)

\* the estimated sizes of the columns at the given positions, added up
RECURSIVE RowSize(_, _)
RowSize(schema, columns) ==
  IF columns = <<>> THEN 0
  ELSE EstimatedColumnSize(schema[Head(columns)]) + RowSize(schema, Tail(columns))

\* split, newTable(): a table with the key columns
NewTable(schema) ==
  [columns |-> KeysOf(schema),
   nrColumns |-> Len(KeysOf(schema)),
   rowSize |-> RowSize(schema, KeysOf(schema))]

\* split with a table filled up to MaxColumns + 1 columns (a mutant of
\* StartsNewTable)
StartsNewTableLate(table, colSize, maxColumns) ==
  \/ table.nrColumns > maxColumns
  \/ table.rowSize + colSize >= MaxRowSize

\* split: the column does not go into the table at hand
StartsNewTable(table, colSize, maxColumns) ==
  \/ table.nrColumns >= maxColumns - 1
  \/ table.rowSize + colSize >= MaxRowSize

\* split, aTable.schema.forEach from column i on
RECURSIVE SplitFrom(_, _, _, _)
SplitFrom(schema, maxColumns, i, shards) ==
  IF i > Len(schema) THEN shards
  ELSE IF schema[i].key THEN SplitFrom(schema, maxColumns, i + 1, shards)
  ELSE LET colSize == EstimatedColumnSize(schema[i])
           started == IF StartsNewTable(shards[Len(shards)], colSize, maxColumns)
                      THEN Append(shards, NewTable(schema)) ELSE shards
           table == started[Len(started)]
       IN SplitFrom(schema, maxColumns, i + 1,
                    [started EXCEPT ![Len(started)] =
                       [columns |-> Append(table.columns, i),
                        nrColumns |-> table.nrColumns + 1,
                        rowSize |-> table.rowSize + colSize]])

\* WideTable.split(aTable): spec.tables
Split(schema, maxColumns) == SplitFrom(schema, maxColumns, 1, <<NewTable(schema)>>)

\* a table to split: one or two key columns and at least one other column,
\* with DB_MAX_COLUMNS 3 or 4
SplitInit ==
  /\ AdminAtRest
  /\ req = NoReq /\ ds = NoDataset /\ resp = NoResp /\ loc = NoLoc
  /\ hpc = "idle"
  /\ \E maxColumns \in 3..4, schema \in SeqsUpTo(KeyDefs \cup ValueDefs, MaxSchema) :
       /\ Len(KeysOf(schema)) \in 1..2
       /\ Len(schema) > Len(KeysOf(schema))
       /\ arg = [kind |-> "split", MaxColumns |-> maxColumns, schema |-> schema]
  /\ res = NoRes

\* Table.createIn: WideTable.split(this)
SplitApply ==
  /\ res = NoRes
  /\ res' = [kind |-> "split", shards |-> Split(arg.schema, arg.MaxColumns)]
  /\ UNCHANGED <<catalog, tables, day, pc, cmd, dsVersion, mdv, ret, rmf, drop,
                 out, pre, last, incIn, incOut, req, ds, resp, loc, hpc, arg>>

SplitNext == SplitApply

SplitSpec == SplitInit /\ [][SplitNext]_vars

\* ------------------------------------- a datapoints table and its indexes

\* the most CSV files of a datapoints table
MaxFiles == 2

\* WideTable.dropPrimaryIndex with force (a mutant of DropsPrimaryIndex)
DropsPrimaryIndexForced(wide, force) == TRUE

\* dropPrimaryIndex(database, force): a Table drops its primary key, a
\* WideTable only when forced
DropsPrimaryIndex(wide, force) == ~wide \/ force

\* a datapoints table of the package: its schema and the number of its files
TableInit ==
  /\ AdminAtRest
  /\ req = NoReq /\ ds = NoDataset /\ resp = NoResp /\ loc = NoLoc
  /\ hpc = "idle"
  /\ \E maxColumns \in 3..4, schema \in SeqsUpTo(KeyDefs \cup ValueDefs, MaxSchema),
        files \in 1..MaxFiles :
       /\ Len(KeysOf(schema)) \in 1..2
       /\ Len(schema) > Len(KeysOf(schema))
       /\ arg = [kind |-> "table", MaxColumns |-> maxColumns, schema |-> schema,
                 files |-> files]
  /\ res = NoRes

\* _createTableFor: table = await table.createIn(DB).  The table is split
\* when it has more than MaxColumns columns or when the database refuses the
\* CREATE TABLE with ER_TOO_MANY_FIELDS or ER_TOO_BIG_ROWSIZE.
TableCreateIn(refused) ==
  /\ arg.kind = "table"
  /\ res = NoRes
  /\ LET wide == Len(arg.schema) > arg.MaxColumns \/ refused
     IN res' = [kind |-> "table", step |-> "setPrimaryIndexTo", wide |-> wide,
                shards |-> IF wide THEN Len(Split(arg.schema, arg.MaxColumns)) ELSE 1,
                primary |-> {}, files |-> arg.files, events |-> <<"createIn">>]
  /\ UNCHANGED <<catalog, tables, day, pc, cmd, dsVersion, mdv, ret, rmf, drop,
                 out, pre, last, incIn, incOut, req, ds, resp, loc, hpc, arg>>

\* await table.setPrimaryIndexTo(ddfTable.key): ALTER TABLE ... ADD PRIMARY
\* KEY, for a WideTable on each of its tables in any order
TableSetPrimaryIndexTo(s) ==
  /\ res.kind = "table"
  /\ res.step = "setPrimaryIndexTo"
  /\ s \in 1..res.shards
  /\ s \notin res.primary
  /\ res' = [res EXCEPT !.primary = @ \cup {s},
                        !.events = Append(@, "setPrimaryIndexTo"),
                        !.step = IF res.primary \cup {s} = 1..res.shards
                                 THEN "loadCSVFile" ELSE @]
  /\ UNCHANGED <<catalog, tables, day, pc, cmd, dsVersion, mdv, ret, rmf, drop,
                 out, pre, last, incIn, incOut, req, ds, resp, loc, hpc, arg>>

\* await table.loadCSVFile(file, ...), file after file
TableLoadCSVFile ==
  /\ res.kind = "table"
  /\ res.step = "loadCSVFile"
  /\ res' = [res EXCEPT !.files = @ - 1,
                        !.events = Append(@, "loadCSVFile"),
                        !.step = IF res.files = 1 THEN "dropPrimaryIndex" ELSE @]
  /\ UNCHANGED <<catalog, tables, day, pc, cmd, dsVersion, mdv, ret, rmf, drop,
                 out, pre, last, incIn, incOut, req, ds, resp, loc, hpc, arg>>

\* loadFromDirectory: await table.dropPrimaryIndex()
TableDropPrimaryIndex ==
  /\ res.kind = "table"
  /\ res.step = "dropPrimaryIndex"
  /\ res' = [res EXCEPT !.primary = IF DropsPrimaryIndex(res.wide, FALSE) THEN {} ELSE @,
                        !.events = Append(@, "dropPrimaryIndex"),
                        !.step = "createIndexes"]
  /\ UNCHANGED <<catalog, tables, day, pc, cmd, dsVersion, mdv, ret, rmf, drop,
                 out, pre, last, incIn, incOut, req, ds, resp, loc, hpc, arg>>

\* loadFromDirectory: await table.createIndexes(), ALTER TABLE ... ADD INDEX
\* on the columns with a cardinality of 150 or more; then table.cleanUp()
TableCreateIndexes ==
  /\ res.kind = "table"
  /\ res.step = "createIndexes"
  /\ res' = [res EXCEPT !.events = Append(@, "createIndexes"), !.step = "done"]
  /\ UNCHANGED <<catalog, tables, day, pc, cmd, dsVersion, mdv, ret, rmf, drop,
                 out, pre, last, incIn, incOut, req, ds, resp, loc, hpc, arg>>

TableNext ==
  \/ \E refused \in BOOLEAN : TableCreateIn(refused)
  \/ \E s \in 1..MaxSchema : TableSetPrimaryIndexTo(s)
  \/ TableLoadCSVFile
  \/ TableDropPrimaryIndex
  \/ TableCreateIndexes

TableSpec == TableInit /\ [][TableNext]_vars

\* ------------------------------------------------- the row-by-row upsert

\* the most records of a CSV file
MaxCsvRecords == 3

\* wait(500)
RetryDelay == 500

\* what the database answers to the upsert of a record and, after a
\* deadlock, to its second run; "nokey" is a record without a value for a
\* primary key, for which no statement is run
UpsertAnswers ==
  {<<"ok">>, <<"nokey">>, <<"error">>,
   <<"deadlock", "ok">>, <<"deadlock", "deadlock">>, <<"deadlock", "error">>}

\* _updateRecord, .catch: err.code === 'ER_LOCK_DEADLOCK'
Retries(code) == code = "deadlock"

UpsertInit ==
  /\ AdminAtRest
  /\ req = NoReq /\ ds = NoDataset /\ resp = NoResp /\ loc = NoLoc
  /\ hpc = "idle"
  /\ \E answers \in SeqsUpTo(UpsertAnswers, MaxCsvRecords) :
       arg = [kind |-> "upsert", answers |-> answers]
  /\ res = NoRes

\* _pipeCSVFile: csvFile.pipe(parser).pipe(schemaComputer)
UpsertPipe ==
  /\ arg.kind = "upsert"
  /\ res = NoRes
  /\ res' = [kind |-> "upsert", step |-> "write", record |-> 1, queries |-> 0,
             waited |-> 0, failure |-> "none", rejected |-> FALSE,
             skipped |-> 0, saved |-> FALSE]
  /\ UNCHANGED <<catalog, tables, day, pc, cmd, dsVersion, mdv, ret, rmf, drop,
                 out, pre, last, incIn, incOut, req, ds, resp, loc, hpc, arg>>

\* RecordProcessor._write(record) calls _updateRecord(record): the record
\* without a key makes it return the error (no Promise, callback(null) is
\* called at once); else the statement is run.  A success resolves the
\* Promise and callback(null) is called; a deadlock goes to wait(500); any
\* other error is logged, the connection is ended and the Promise rejected.
UpsertWrite ==
  /\ res.kind = "upsert"
  /\ res.step = "write"
  /\ res.record <= Len(arg.answers)
  /\ LET code == arg.answers[res.record][1]
     IN res' = IF code = "nokey"
                 THEN [res EXCEPT !.record = @ + 1, !.skipped = @ + 1]
               ELSE IF code = "ok"
                 THEN [res EXCEPT !.record = @ + 1, !.queries = 0, !.waited = 0]
               ELSE IF Retries(code)
                 THEN [res EXCEPT !.step = "wait", !.queries = 1, !.waited = 0]
               ELSE [res EXCEPT !.step = "rejected", !.queries = 1, !.waited = 0,
                                !.failure = code, !.rejected = TRUE]
  /\ UNCHANGED <<catalog, tables, day, pc, cmd, dsVersion, mdv, ret, rmf, drop,
                 out, pre, last, incIn, incOut, req, ds, resp, loc, hpc, arg>>

\* wait(500).then(() => this._connection.query(sql)): the second run is the
\* last, its error rejects the Promise
UpsertRetry ==
  /\ res.kind = "upsert"
  /\ res.step = "wait"
  /\ LET answer == arg.answers[res.record]
         code == IF Len(answer) > 1 THEN answer[2] ELSE "error"
     IN res' = IF code = "ok"
                 THEN [res EXCEPT !.step = "write", !.record = @ + 1,
                                  !.queries = @ + 1, !.waited = @ + RetryDelay]
               ELSE [res EXCEPT !.step = "rejected", !.queries = @ + 1,
                                !.waited = @ + RetryDelay,
                                !.failure = code, !.rejected = TRUE]
  /\ UNCHANGED <<catalog, tables, day, pc, cmd, dsVersion, mdv, ret, rmf, drop,
                 out, pre, last, incIn, incOut, req, ds, resp, loc, hpc, arg>>

\* result.then(value => callback(null, ...)) has no handler for a rejected
\* Promise, so callback is never called and neither 'finish' nor 'error'
\* is emitted.  What the unhandled rejection does is up to the Node.js the
\* package runs on (engines: node >= 10.15.1): a warning, and the stream
\* waits for the callback for ever; or, from Node.js 15 on, the process is
\* ended with the error.
UpsertUnhandledRejection(throws) ==
  /\ res.kind = "upsert"
  /\ res.step = "rejected"
  /\ res' = [res EXCEPT !.step = IF throws THEN "failed" ELSE "hung"]
  /\ UNCHANGED <<catalog, tables, day, pc, cmd, dsVersion, mdv, ret, rmf, drop,
                 out, pre, last, incIn, incOut, req, ds, resp, loc, hpc, arg>>

\* 'finish': _pipeCSVFile resolves, the load goes on and dataset.save()
\* stores the version
UpsertFinish ==
  /\ res.kind = "upsert"
  /\ res.step = "write"
  /\ res.record > Len(arg.answers)
  /\ res' = [res EXCEPT !.step = "finished", !.saved = TRUE]
  /\ UNCHANGED <<catalog, tables, day, pc, cmd, dsVersion, mdv, ret, rmf, drop,
                 out, pre, last, incIn, incOut, req, ds, resp, loc, hpc, arg>>

UpsertNext ==
  \/ UpsertPipe
  \/ UpsertWrite
  \/ UpsertRetry
  \/ \E throws \in BOOLEAN : UpsertUnhandledRejection(throws)
  \/ UpsertFinish

\* the event loop runs every callback and timer that is due
UpsertSpec == UpsertInit /\ [][UpsertNext]_vars /\ WF_vars(UpsertNext)

\* ------------------------------------- the connection of a query stream

\* the most rows the database finds for a query
MaxFound == 2

\* JavaScript: obj[name] is truthy, for an object with the given properties
HasProperty(props, name) == name \in props

\* the properties of the stream the handler holds in recordStream: the
\* stream of the database, or the ArrayStream that stands in for an empty
\* one, whose cleanUp is never deleted
HandlerStream(r) == IF r.substitute THEN {"cleanUp"} ELSE r.props

\* recordStream.cleanUp(err) that deletes itself only (a mutant of CleanUp)
CleanUpKeepsConnection(r) ==
  IF HasProperty(r.props, "cleanUp")
    THEN [r EXCEPT !.props = {}]
    ELSE [r EXCEPT !.typeErrors = @ + 1]

\* a call recordStream.cleanUp(err) on the stream of the database: it
\* deletes itself and ends the connection; once deleted the call throws
\* TypeError: recordStream.cleanUp is not a function
CleanUp(r) ==
  IF HasProperty(r.props, "cleanUp")
    THEN [r EXCEPT !.props = {}, !.ends = @ + 1]
    ELSE [r EXCEPT !.typeErrors = @ + 1]

\* ctx.req.on('aborted' | 'close'): if (recordStream && recordStream.cleanup)
\* recordStream.cleanUp(new Error(...)).  "kept" records that the stream
\* had its cleanUp and the listener let it be.
AbortListener(r) ==
  IF r.step = "streaming" /\ HasProperty(HandlerStream(r), "cleanup")
    THEN [CleanUp(r) EXCEPT !.listener = "called"]
    ELSE IF r.step = "streaming" /\ HasProperty(HandlerStream(r), "cleanUp")
      THEN [r EXCEPT !.listener = "kept"]
      ELSE r

StreamInit ==
  /\ AdminAtRest
  /\ req = NoReq /\ ds = NoDataset /\ resp = NoResp /\ loc = NoLoc
  /\ hpc = "idle"
  /\ arg \in [kind : {"stream"}, found : 0..MaxFound]
  /\ res = NoRes

\* the handler calls dataset.queryStream(ddfQuery, abortCheck, credential),
\* which gets as far as await DB.getConnection()
StreamQuery ==
  /\ arg.kind = "stream"
  /\ res = NoRes
  /\ res' = [kind |-> "stream", step |-> "connecting", acquired |-> FALSE,
             ends |-> 0, props |-> {}, substitute |-> FALSE, resolved |-> FALSE,
             db |-> "idle", left |-> arg.found, ticks |-> 0, typeErrors |-> 0,
             aborted |-> FALSE, listener |-> "idle", destroyed |-> FALSE,
             status |-> 0]
  /\ UNCHANGED <<catalog, tables, day, pc, cmd, dsVersion, mdv, ret, rmf, drop,
                 out, pre, last, incIn, incOut, req, ds, resp, loc, hpc, arg>>

\* DB.getConnection() resolves, or rejects with ER_GET_CONNECTION_TIMEOUT
\* (503).  if (abortCheck()) { connection.end(); return null }, and the
\* handler answers 503; else connection.queryStream(...) and cleanUp is set.
StreamGetConnection(timeout) ==
  /\ res.kind = "stream"
  /\ res.step = "connecting"
  /\ res.ticks = 0
  /\ res' = IF timeout
              THEN [res EXCEPT !.step = "responded", !.status = 503]
            ELSE IF res.aborted
              THEN [res EXCEPT !.acquired = TRUE, !.ends = @ + 1,
                               !.step = "responded", !.status = 503]
            ELSE [res EXCEPT !.acquired = TRUE, !.step = "querying",
                             !.db = "open", !.props = {"cleanUp"}]
  /\ UNCHANGED <<catalog, tables, day, pc, cmd, dsVersion, mdv, ret, rmf, drop,
                 out, pre, last, incIn, incOut, req, ds, resp, loc, hpc, arg>>

\* the client closes the connection before the response is complete: the
\* request emits 'aborted' and 'close'
StreamAborted ==
  /\ res.kind = "stream"
  /\ ~res.aborted
  /\ res.ticks = 0
  /\ ~res.destroyed
  /\ res.step # "responded"
  /\ res' = [AbortListener(res) EXCEPT !.aborted = TRUE]
  /\ UNCHANGED <<catalog, tables, day, pc, cmd, dsVersion, mdv, ret, rmf, drop,
                 out, pre, last, incIn, incOut, req, ds, resp, loc, hpc, arg>>

\* recordStream emits 'data': the first row resolves the Promise with the
\* stream and the handler pipes it into the printer (200)
StreamData ==
  /\ res.kind = "stream"
  /\ res.db = "open"
  /\ res.ticks = 0
  /\ res.left > 0
  /\ res' = [res EXCEPT !.left = @ - 1,
                        !.resolved = TRUE,
                        !.step = IF res.step = "querying" THEN "streaming" ELSE @,
                        !.status = IF res.step = "querying" THEN 200 ELSE @]
  /\ UNCHANGED <<catalog, tables, day, pc, cmd, dsVersion, mdv, ret, rmf, drop,
                 out, pre, last, incIn, incOut, req, ds, resp, loc, hpc, arg>>

\* recordStream emits 'end': with nothing resolved the Promise resolves
\* with new ArrayStream([ [] ]) whose cleanUp calls recordStream.cleanUp
StreamEnd ==
  /\ res.kind = "stream"
  /\ res.db = "open"
  /\ res.ticks = 0
  /\ res.left = 0
  /\ res' = [res EXCEPT !.db = "ended",
                        !.resolved = TRUE,
                        !.substitute = ~res.resolved,
                        !.step = IF res.step = "querying" THEN "streaming" ELSE @,
                        !.status = IF res.step = "querying" THEN 200 ELSE @]
  /\ UNCHANGED <<catalog, tables, day, pc, cmd, dsVersion, mdv, ret, rmf, drop,
                 out, pre, last, incIn, incOut, req, ds, resp, loc, hpc, arg>>

\* recordStream emits 'error': process.nextTick(cleanUp) and reject(err),
\* which has an effect only while the Promise is pending
StreamError ==
  /\ res.kind = "stream"
  /\ res.db = "open"
  /\ res.ticks = 0
  /\ res' = [res EXCEPT !.db = "errored",
                        !.resolved = TRUE,
                        !.ticks = @ + 1,
                        !.step = IF res.step = "querying" THEN "rejected" ELSE @]
  /\ UNCHANGED <<catalog, tables, day, pc, cmd, dsVersion, mdv, ret, rmf, drop,
                 out, pre, last, incIn, incOut, req, ds, resp, loc, hpc, arg>>

\* the callback of process.nextTick: recordStream.cleanUp(err).  It runs
\* before any other event is handled.
StreamTick ==
  /\ res.kind = "stream"
  /\ res.ticks > 0
  /\ res' = [CleanUp(res) EXCEPT !.ticks = @ - 1]
  /\ UNCHANGED <<catalog, tables, day, pc, cmd, dsVersion, mdv, ret, rmf, drop,
                 out, pre, last, incIn, incOut, req, ds, resp, loc, hpc, arg>>

\* the catch of the handler, after the callbacks of nextTick: recordStream
\* was not assigned, so cleanUp is not called here; ctx.throw(500)
StreamCatch ==
  /\ res.kind = "stream"
  /\ res.step = "rejected"
  /\ res.ticks = 0
  /\ res' = [res EXCEPT !.step = "responded", !.status = 500]
  /\ UNCHANGED <<catalog, tables, day, pc, cmd, dsVersion, mdv, ret, rmf, drop,
                 out, pre, last, incIn, incOut, req, ds, resp, loc, hpc, arg>>

\* the response has finished or its connection is closed, and Koa destroys
\* the body: printer._destroy = (err) => { if (recordStream.cleanUp)
\* recordStream.cleanUp(err) ... }, at most once for a printer
StreamDestroy ==
  /\ res.kind = "stream"
  /\ res.step = "streaming"
  /\ res.ticks = 0
  /\ ~res.destroyed
  /\ res.aborted \/ (res.db = "ended" /\ res.left = 0)
  /\ res' = [(IF HasProperty(HandlerStream(res), "cleanUp") THEN CleanUp(res) ELSE res)
               EXCEPT !.destroyed = TRUE]
  /\ UNCHANGED <<catalog, tables, day, pc, cmd, dsVersion, mdv, ret, rmf, drop,
                 out, pre, last, incIn, incOut, req, ds, resp, loc, hpc, arg>>

StreamNext ==
  \/ StreamQuery
  \/ \E timeout \in BOOLEAN : StreamGetConnection(timeout)
  \/ StreamAborted
  \/ StreamData
  \/ StreamEnd
  \/ StreamError
  \/ StreamTick
  \/ StreamCatch
  \/ StreamDestroy

\* the event loop runs every callback that is due, the database answers
\* every query and every connection of a client is closed in the end
StreamSpec == StreamInit /\ [][StreamNext]_vars /\ WF_vars(StreamNext)

\* showList(result): a result that is no array (the command caught its own
\* error and returned undefined) sets process.exitCode = 1; -1: left unset
ShowListExitCode(o) == IF o = "failed" THEN 1 ELSE -1

\* run().then(...).catch(...): the exit code of the CLI process.  A rejected
\* run() gives 1; a resolved run() gives 0, whatever showList had set.
ExitCode(o) ==
  IF o = "thrown" THEN 1
  ELSE LET set == ShowListExitCode(o) IN 0

\* ------------------------------------------------------------------ claims

\* the rows of a name, as indexes into the catalog
RowsOf(cat, name) == {i \in 1..Len(cat) : cat[i].name = name}

DefaultsOf(cat, name) == {i \in RowsOf(cat, name) : cat[i].isDefault}

VersionsOf(cat, name) == {cat[i].version : i \in RowsOf(cat, name)}

Newest(rows) == CHOOSE i \in rows : \A j \in rows : j <= i

\* C1: each dataset name has at most one row of the catalog whose default
\* flag is true, in every reachable state.
C1_AtMostOneDefault ==
  \A n \in Names : Cardinality(DefaultsOf(catalog, n)) <= 1

\* C3: the version a load without a literal version assigns differs from
\* every version the catalog holds for that name.
C3_DerivedVersionIsNew ==
  (pc = "load_ingest" /\ cmd.version = NoVersion)
    => dsVersion \notin VersionsOf(catalog, cmd.name)

\* the version C5 says follows `prior` on the day `today`
C5_Claimed(prior, today) ==
  IF prior = NoVersion THEN FormatDay(today) \o <<"0", "1">>
  ELSE IF EndsWithTwoDigits(prior)
  THEN SliceHead(prior, 2) \o Pad(ParseInt(SliceTail(prior, 2)) + 1, 2)
  ELSE prior \o <<"1">>

\* the versions C5 speaks of: no version, a version of today, a version
\* that ends with two digits nn (00..98) after something that is no date,
\* and a version that does not end with two digits
C5_Covered(prior, today) ==
  EndsWithTwoDigits(prior)
    => /\ ParseInt(SliceTail(prior, 2)) <= 98
       /\ SliceHead(prior, 2) = FormatDay(today)
            \/ ParseDate(SliceHead(prior, 2)) = InvalidDate

\* C5: version derivation: no prior version gives today's YYYYMMDD and 01;
\* a prior version of today, or one that ends with two digits nn, gives the
\* same beginning and nn + 1 in two digits; any other gives the prior
\* version and '1'.
C5_VersionDerivation ==
  (incOut # NoVersion /\ C5_Covered(incIn, Today(day)))
    => incOut = C5_Claimed(incIn, Today(day))

\* C2: lookup(name, version): without a version the version flagged default
\* if there is one, else the most recently imported one; with "latest" the
\* most recently imported one; with a literal version that version; not
\* found only when no row matches.
C2_LookupResolves ==
  \A n \in Names :
    LET rows == RowsOf(catalog, n)
        defaults == DefaultsOf(catalog, n)
        plain == Open(catalog, n, NoVersion)
        latest == Open(catalog, n, Latest)
    IN /\ plain.found = (rows # {})
       /\ latest.found = (rows # {})
       /\ defaults # {} => plain.version \in {catalog[i].version : i \in defaults}
       /\ (rows # {} /\ defaults = {}) => plain.version = catalog[Newest(rows)].version
       /\ rows # {} => latest.version = catalog[Newest(rows)].version
       /\ \A v \in ExplicitVersions \cup CatalogVersions :
            LET exact == Open(catalog, n, v)
            IN /\ exact.found = (v \in VersionsOf(catalog, n))
               /\ exact.found => exact.version = v

\* C2 happens: a name whose default version is not its most recent one; the
\* lookup without a version gives the default, the lookup of "latest" the other
C2_Witness ==
  \E n \in Names :
    /\ Cardinality(DefaultsOf(catalog, n)) = 1
    /\ ~catalog[Newest(RowsOf(catalog, n))].isDefault
    /\ Open(catalog, n, NoVersion).version # Open(catalog, n, Latest).version
    /\ Open(catalog, n, NoVersion).version
         = catalog[CHOOSE i \in DefaultsOf(catalog, n) : TRUE].version

\* the running command is a load with a version it must refuse: "latest", or
\* a literal version the catalog held for the name when the command started
C4_MustRefuse ==
  /\ cmd.op = "load"
  /\ \/ cmd.version = Latest
     \/ cmd.version # NoVersion /\ cmd.version \in VersionsOf(pre.catalog, cmd.name)

C6_Published ==
  pc = "done" /\ cmd.op = "load" /\ cmd.publish /\ out = "ok"

\* C6 as claimed: after a load with --publish the new version is flagged
\* default, and it is the only one of its name.
C6_PublishedIsFlagged ==
  C6_Published
    => /\ \E i \in DefaultsOf(catalog, cmd.name) : catalog[i].version = dsVersion
       /\ \A i \in DefaultsOf(catalog, cmd.name) : catalog[i].version = dsVersion

\* C6, amended: after a load with --publish the lookup without a version
\* gives the new version and no other version of the name is flagged
\* default; the new version is flagged exactly when the name had a default
\* before the load.
C6_PublishedIsServed ==
  C6_Published
    => /\ Open(catalog, cmd.name, NoVersion) = [found |-> TRUE, version |-> dsVersion]
       /\ \A i \in DefaultsOf(catalog, cmd.name) : catalog[i].version = dsVersion
       /\ (DefaultsOf(catalog, cmd.name) # {}) = (DefaultsOf(pre.catalog, cmd.name) # {})

\* C6 happens: a load with --publish into a name that had another default
C6_Witness ==
  /\ C6_Published
  /\ DefaultsOf(pre.catalog, cmd.name) # {}
  /\ \E i \in DefaultsOf(catalog, cmd.name) : catalog[i].version = dsVersion

\* the catalog without its default flags
Unflagged(cat) == [i \in 1..Len(cat) |-> [cat[i] EXCEPT !.isDefault = FALSE]]

\* the rows of the other names
OtherRows(cat, name) ==
  LET other(r) == r.name # name
  IN SelectSeq(cat, other)

\* a delete of (name, v) has completed right after the load of (name, v)
C7_LoadedThenDeleted ==
  /\ pc = "done"
  /\ cmd.op = "delete"
  /\ out = "ok"
  /\ last.valid
  /\ last.name = cmd.name
  /\ last.version = cmd.version

\* C7 as claimed: load (name, v) then delete (name, v) gives back the catalog
\* of before the load, default flags included, and the delete drops exactly
\* the tables the load created.
C7_RoundTripExact ==
  C7_LoadedThenDeleted
    => /\ catalog = last.catalog
       /\ pre.tables \ tables = TableNames(last.name, last.version)

\* C7, amended: load (name, v) then delete (name, v) gives back the rows of
\* the catalog (names, versions, import order) and, for the other names, the
\* default flags; the delete drops exactly the tables the load created.  The
\* flags of the name are as before when the load was without --publish and
\* the name had a default or no version, or with --publish and the name had
\* no default; else, without --publish, the version that was the most recent
\* is flagged, and, with --publish, no version is.
C7_RoundTripRows ==
  C7_LoadedThenDeleted
    => LET n == last.name
           before == DefaultsOf(last.catalog, n)
           rows == RowsOf(last.catalog, n)
       IN /\ Unflagged(catalog) = Unflagged(last.catalog)
          /\ OtherRows(catalog, n) = OtherRows(last.catalog, n)
          /\ pre.tables \ tables = TableNames(n, last.version)
          /\ tables = pre.tables \ TableNames(n, last.version)
          /\ IF last.publish
             THEN IF before = {} THEN catalog = last.catalog
                  ELSE DefaultsOf(catalog, n) = {}
             ELSE IF before # {} \/ rows = {} THEN catalog = last.catalog
                  ELSE DefaultsOf(catalog, n) =
                         {i \in rows : catalog[i].version = catalog[Newest(rows)].version}

\* C7 happens: the round trip has changed a default flag
C7_Witness ==
  /\ C7_LoadedThenDeleted
  /\ catalog # last.catalog
  /\ RowsOf(catalog, cmd.name) # {}

\* the rows of a name, oldest first
NamedRows(cat, name) ==
  LET named(r) == r.name = name
  IN SelectSeq(cat, named)

\* the rows C8 says purge retains
C8_Retained(rows) ==
  LET defaults == {i \in 1..Len(rows) : rows[i].isDefault}
      d == IF defaults = {} THEN Len(rows) ELSE CHOOSE i \in defaults : TRUE
      from == IF d - 1 < 1 THEN 1 ELSE d - 1
  IN SubSeq(rows, from, Len(rows))

\* C8: purge retains the default, every version imported after it and the
\* one imported right before it, or without a default the two most recent
\* versions, and deletes every older one.
C8_PurgeRetains ==
  (pc = "done" /\ cmd.op = "purge"
     /\ Cardinality(DefaultsOf(pre.catalog, cmd.name)) <= 1)
    => /\ NamedRows(catalog, cmd.name) = C8_Retained(NamedRows(pre.catalog, cmd.name))
       /\ OtherRows(catalog, cmd.name) = OtherRows(pre.catalog, cmd.name)

\* the running command is a delete of "latest" and the most recent version
\* of the name was the default when it started
C9_LatestIsDefault ==
  /\ cmd.op = "delete"
  /\ cmd.version = Latest
  /\ RowsOf(pre.catalog, cmd.name) # {}
  /\ pre.catalog[Newest(RowsOf(pre.catalog, cmd.name))].isDefault

C10_Marking == pc \in {"md_unset", "md_set", "md_check"}

\* C10: a lookup without a version at any point of makeDefaultVersion(name, v)
\* finds a version: one that was the default before, v, or the most
\* recently imported one.
C10_ReaderToleratesMarking ==
  C10_Marking
    => LET n == cmd.name
           seen == Open(catalog, n, NoVersion)
       IN /\ seen.found
          /\ seen.version \in
               {pre.catalog[i].version : i \in DefaultsOf(pre.catalog, n)}
                 \cup {mdv}
                 \cup {catalog[Newest(RowsOf(catalog, n))].version}

\* C10 happens: the old default is unset, the new one not yet set, and the
\* lookup gives the most recent version, which is neither of them
C10_Witness ==
  /\ pc = "md_set"
  /\ DefaultsOf(catalog, cmd.name) = {}
  /\ DefaultsOf(pre.catalog, cmd.name) # {}
  /\ Open(catalog, cmd.name, NoVersion).found
  /\ Open(catalog, cmd.name, NoVersion).version # mdv
  /\ Open(catalog, cmd.name, NoVersion).version
       \notin {pre.catalog[i].version : i \in DefaultsOf(pre.catalog, cmd.name)}

\* C20: the CLI ends with exit code 0 exactly when the command succeeded and
\* with exit code 1 on any error (a refused load, a make-default of an
\* unknown dataset or version, a delete of the latest version that is the
\* default).
C20_ExitCodeTellsSuccess ==
  pc = "done" => (ExitCode(out) = 0 <=> out = "ok")

\* the middleware has decided on a request
C16_Decided == res.kind = "admit"

\* C16 as claimed: with throttling active a request gets 503 before any route
\* runs exactly when the lag exceeds CPU_THROTTLE or the queue of the pool
\* exceeds DB_THROTTLE (a queue exactly at the threshold is admitted); a
\* threshold of 0 disables its check; in test mode nothing is rejected.
C16_RejectsAboveThreshold ==
  C16_Decided
    => /\ (res.status = 503) <=>
            /\ ~arg.forTesting
            /\ \/ arg.CPUThrottle # 0 /\ arg.lag > arg.CPUThrottle
               \/ arg.DBThrottle # 0 /\ arg.taskQueueSize > arg.DBThrottle
       /\ res.status = 503 => ~res.routed

\* C16 amended: as claimed, but the queue of the pool is compared by "at
\* least": a request that arrives when DB_THROTTLE requests are queued
\* already gets 503.
C16_RejectsAtThreshold ==
  C16_Decided
    => /\ (res.status = 503) <=>
            /\ ~arg.forTesting
            /\ \/ arg.CPUThrottle # 0 /\ arg.lag > arg.CPUThrottle
               \/ arg.DBThrottle # 0 /\ arg.taskQueueSize >= arg.DBThrottle
       /\ res.status = 503 => ~res.routed
       /\ res.status # 503 => res.routed

\* C16 happens: a request was rejected with the queue exactly at DB_THROTTLE
\* and the lag within CPU_THROTTLE
C16_Witness ==
  /\ C16_Decided
  /\ res.status = 503
  /\ arg.taskQueueSize = arg.DBThrottle
  /\ arg.lag <= arg.CPUThrottle

\* the response body is complete
C17_Printed == res.kind = "print" /\ res.flushed

\* the rows of the database with a value column that is not null
C17_WithValue(records, firstValueIndex) ==
  LET hasValue(r) == \E idx \in (firstValueIndex + 1)..Len(r) : r[idx] # Null
  IN SelectSeq(records, hasValue)

\* C17: for from = datapoints a row of the database is left out of "rows"
\* exactly when each of its value columns is null (a row with 0 in a value
\* column is kept); for any other from no row is left out.
C17_OnlyNullRowsOmitted ==
  (C17_Printed /\ arg.records # <<>>)
    => res.rows = IF arg.query.from = "datapoints"
                  THEN C17_WithValue(arg.records, Len(arg.query.select.key))
                  ELSE arg.records

\* C18: when the database gives no row the body has rows = [], the header
\* of the query and an info entry, whatever the from; each array in rows
\* is as long as the header.
C18_EmptyResult ==
  C17_Printed
    => /\ arg.records = <<>>
            => /\ res.rows = <<>>
               /\ res.header = Header(arg.query)
               /\ res.info
       /\ \A i \in 1..Len(res.rows) : Len(res.rows[i]) = Len(res.header)

\* the query passed the syntax validation and has been answered
C19_Answered ==
  res.kind = "compile" /\ res.stage = "done" /\ ValidateSyntax(arg.query) = NoError

\* C19: an order_by field that names a column of select.key or select.value
\* is in the emitted sort with its direction; one that is neither in the
\* projection nor a declared value of the table is dropped and recorded as
\* a warning; no order_by that passed the validation makes the query fail.
C19_OrderByNeverFails ==
  C19_Answered
    => LET q == arg.query
           orderBy == NormalizedOrderBy(q)
           selected == Range(q.key) \cup Range(q.value)
           projected == Range(MapSeq(q.key, DomainOf)) \cup Range(q.value)
       IN /\ res.status = 200
          /\ \A i \in 1..Len(orderBy) :
               /\ orderBy[i].field \in selected
                    => orderBy[i] \in Range(res.sql.sort)
               /\ orderBy[i].field \notin projected \cup Range(SchemaValues(q.from))
                    => /\ orderBy[i].field \notin {res.sql.sort[n].field :
                                                      n \in 1..Len(res.sql.sort)}
                       /\ orderBy[i].field \in Range(res.sql.warn)

\* the rows of a name, oldest first
C11_RowsOf(cat, name) == {i \in 1..Len(cat) : cat[i].name = name}

\* the catalog lookup rules for a request without version: the default
\* version, the most recently imported version when there is no default
C11_Resolved(cat, name) ==
  LET rows == C11_RowsOf(cat, name)
      defaults == {i \in rows : cat[i].isDefault}
      from == IF defaults # {} THEN defaults ELSE rows
  IN cat[CHOOSE i \in from : \A j \in from : j <= i].version

C12_VersionOfUrl ==
  req.route = "query" /\ resp.status = 200 => resp.version = req.version

\* the most recently imported version of a name
C12_MostRecent(cat, name) ==
  LET rows == C11_RowsOf(cat, name)
  IN cat[CHOOSE i \in rows : \A j \in rows : j <= i].version

\* C12: the version of a 200 query response is the version segment of the
\* URL, except for the segment "latest": there it is the version that was
\* the most recently imported one when the dataset was looked up
C12_VersionOfUrlOrLatest ==
  /\ [](req.route = "query" /\ resp.status = 200
          => IF req.version = Latest
             THEN resp.version = ds.version /\ resp.version # Latest
             ELSE resp.version = req.version)
  /\ [][hpc = "received" /\ hpc' = "opened" /\ req.version = Latest
        => ds'.version = C12_MostRecent(catalog, req.name)]_vars

\* a query for "latest" was answered 200
C12_Witness ==
  /\ req.route = "query" /\ req.version = Latest
  /\ resp.status = 200 /\ resp.version \in ServedVersions

\* C13: a response carries Cache-Control: public, max-age=31536000,
\* immutable and Cache-Tag: name/version only if the request named an
\* explicit version, the version has no password and CACHE_ALLOW is true;
\* every response for a protected version, for the list and for a request
\* without version carries Cache-Control: no-cache, no-store, must-revalidate
C13_CachingPolicy ==
  /\ (resp.cacheControl = "public, max-age=31536000, immutable"
         \/ resp.cacheTag # NoTag)
       => /\ req.version \notin {NoVersion, Latest}
          /\ ds.password = NoPassword
          /\ arg.AllowCaching
          /\ resp.cacheTag = [name |-> req.name, version |-> req.version]
  /\ (/\ hpc = "responded"
      /\ \/ req.route = "list"
         \/ req.route = "query" /\ req.version = NoVersion
         \/ ds.found /\ ds.password # NoPassword)
       => resp.cacheControl = "no-cache, no-store, must-revalidate"

C28_NameVersionUnique ==
  \A i, j \in 1..Len(catalog) :
    (catalog[i].name = catalog[j].name /\ catalog[i].version = catalog[j].version)
      => i = j

\* a load without --publish into a name that had a version has completed
C29_LoadedBeside ==
  /\ pc = "done" /\ cmd.op = "load" /\ ~cmd.publish /\ out = "ok"
  /\ RowsOf(pre.catalog, cmd.name) # {}

\* C29: a load without --publish into a name that has a version already
\* leaves the version a lookup without version resolves to as it was
C29_ServedVersionKept ==
  C29_LoadedBeside
    => Open(catalog, cmd.name, NoVersion) = Open(pre.catalog, cmd.name, NoVersion)

\* the name had no default before the load: save pinned the version served
C29_Witness ==
  /\ C29_LoadedBeside
  /\ DefaultsOf(pre.catalog, cmd.name) = {}
  /\ Len(catalog) = Len(pre.catalog) + 1
  /\ Open(catalog, cmd.name, NoVersion).version # dsVersion

\* C25: in every state, those in the middle of a load, a delete or a purge
\* included, the tables named in the schema of every row of the catalog exist
C25_StoredVersionsHaveTables ==
  \A i \in 1..Len(catalog) : catalog[i].definition \subseteq tables


\* C24: the body of every answered query is one preamble, the rows, one
\* trailer: _flush never writes the trailer of a body whose preamble was not
\* written, also when the stream ends without a record (a schema query over
\* a kind with no entry).
C24_TrailerAfterPreamble ==
  (res.kind = "print" /\ res.flushed) => res.preamble

\* the table was split
C27_Split == res.kind = "split"

\* the columns of the shards that are no key, shard after shard
RECURSIVE C27_ValueColumns(_)
C27_ValueColumns(shards) ==
  IF shards = <<>> THEN <<>>
  ELSE LET NoKey(i) == ~arg.schema[i].key
       IN SelectSeq(Head(shards).columns, NoKey) \o C27_ValueColumns(Tail(shards))

C26_Ingested == res.kind = "table" /\ res.step = "done"

\* the positions of an event in the events of the table
C26_At(event) == {i \in 1..Len(res.events) : res.events[i] = event}

\* C26 as claimed: the primary index is dropped before the bulk load and
\* created again after it, so that after the ingestion the table, or every
\* shard of a wide table, has its primary index.
C26_DroppedBeforeLoad ==
  C26_Ingested
    => /\ \A d \in C26_At("dropPrimaryIndex"), l \in C26_At("loadCSVFile") : d < l
       /\ \A l \in C26_At("loadCSVFile") :
            \E p \in C26_At("setPrimaryIndexTo") : l < p
       /\ res.primary = 1..res.shards

\* C26: the primary index is created before the bulk load; after the load
\* a single table drops it while a wide table keeps the one of every shard,
\* and then the secondary indexes are created.  After the ingestion every
\* shard of a wide table has its primary index and a single table has none.
C26_CreatedBeforeLoad ==
  C26_Ingested
    => /\ \A p \in C26_At("setPrimaryIndexTo"), l \in C26_At("loadCSVFile") : p < l
       /\ \A d \in C26_At("dropPrimaryIndex"), l \in C26_At("loadCSVFile") : l < d
       /\ \A d \in C26_At("dropPrimaryIndex"), c \in C26_At("createIndexes") : d < c
       /\ Cardinality(C26_At("setPrimaryIndexTo")) = res.shards
       /\ Cardinality(C26_At("loadCSVFile")) = arg.files
       /\ Cardinality(C26_At("dropPrimaryIndex")) = 1
       /\ res.primary = IF res.wide THEN 1..res.shards ELSE {}

\* C26 happens: a wide table of several shards was ingested from several
\* files
C26_Witness ==
  /\ C26_Ingested
  /\ res.wide
  /\ res.shards > 1
  /\ arg.files > 1

\* the upsert of a record has failed for good: its Promise is rejected
C23_Failed == res.kind = "upsert" /\ res.rejected

\* the ingestion has ended with the error
C23_EndedInFailure == res.kind = "upsert" /\ res.step = "failed"

\* C23: a deadlock is retried once, 500 ms later; when the second run fails
\* too, or the first error is no deadlock, the ingestion ends in failure
\* (it does not wait for the write callback for ever) and the version is
\* not stored.
C23_FailureEndsIngestion ==
  /\ [](res.kind = "upsert"
          => /\ res.queries <= 2
             /\ res.queries = 2 => res.waited = RetryDelay
             /\ res.rejected => ~res.saved)
  /\ (C23_Failed ~> C23_EndedInFailure)

\* Dataset.queryStream has a connection of the pool
C21_Acquired == res.kind = "stream" /\ res.acquired

\* connection.end() was called: the connection is back in the pool
C21_Returned == res.kind = "stream" /\ res.ends > 0

C22_AbortListenerCleansUp ==
  res.kind = "stream" => res.listener # "kept"

\* C30: connection.end() is called at most once for a connection, and
\* cleanUp is never called after it has deleted itself, whatever the order
\* of 'data', 'end', 'error', the destroying of the printer and the catch of
\* the handler, the stream standing in for an empty result included.
C30_CleanUpOnce ==
  res.kind = "stream" => (res.ends <= 1 /\ res.typeErrors = 0)
====
